---- MODULE Spec2Model ----
(***************************************************************************)
(* A model of the box drawing code (src/UpBox.cxx), of the status bar      *)
(* strip (StatusBarGroup.cxx), of CycleButton::handle and of the UTF-8     *)
(* functions (utf.c) of fltk-2.0.                                          *)
(*                                                                         *)
(* The specifications share the module's variables:                        *)
(*   SpecBox       the FrameBox and FlatBox singletons and their draw();   *)
(*   SpecVariants  every box variant under every flag set;                 *)
(*   Spec          a StatusBarGroup inside a parent group, its label slots;*)
(*   SpecLayout    the same, its geometry;                                 *)
(*   SpecSize      the same, the sizes of its label slots;                 *)
(*   SpecFormat    the same, its formatted set();                          *)
(*   SpecCycle     one event handled by a CycleButton;                     *)
(*   SpecLoop      the cycling loops of a CycleButton, turn by turn;       *)
(*   SpecPress     mouse events, one after another, on two CycleButtons;   *)
(*   SpecUtf       one call of a UTF-8 function;                           *)
(*   SpecKey       one call of key_name.                                   *)
(***************************************************************************)
EXTENDS Integers, Sequences, FiniteSets, TLC

VARIABLES
  boxinfo,     \* FrameBox::boxinfo_ of every constructed FrameBox
  call,        \* the arguments of the call under way (a draw, a handle, ...)
  out,         \* what that call emitted or returned, and where it left
  sbAlive,     \* the StatusBarGroup exists (constructed, not destroyed)
  hasParent,   \* parent() != 0
  psize,       \* <<parent()->w(), parent()->h()>>
  pbox,        \* parent()->box()
  strip,       \* the StatusBarGroup's own rectangle
  sib,         \* the rectangles of the parent's other children
  tf,          \* tf_[3]: a heap id, or 0
  bch,         \* b_[3]: the box of each text field
  heap,        \* the live InvisibleBox objects
  children,    \* the StatusBarGroup's child list
  current,     \* Group::current(): "strip", or "" for 0
  damage,      \* redraw() was called on the StatusBarGroup
  lastSet,     \* history: the last set() on each position
  rt,          \* history: the set() / clearing set() pair in progress
  buffer       \* the static char buffer[512] of the formatted set()

boxVars == <<boxinfo, call, out>>
sbVars == <<sbAlive, hasParent, psize, pbox, strip, sib, tf, bch, heap,
            children, current, damage, lastSet, rt, buffer>>
vars == <<boxinfo, call, out, sbAlive, hasParent, psize, pbox, strip, sib,
          tf, bch, heap, children, current, damage, lastSet, rt, buffer>>

----------------------------------------------------------------------------
(* Characters and pattern strings.  A C string is the sequence of its      *)
(* character codes, without the terminator.                                *)

Letters == <<"A","B","C","D","E","F","G","H","I","J","K","L","M",
             "N","O","P","Q","R","S","T","U","V","W","X","Y","Z">>

Ord(c) == IF c = "2" THEN 50 ELSE 64 + (CHOOSE i \in 1..26 : Letters[i] = c)

Str(cs) == [i \in 1..Len(cs) |-> Ord(cs[i])]

\* C's int division for a positive divisor: it truncates toward zero
CDiv(a, b) == IF a >= 0 THEN a \div b ELSE -((-a) \div b)

----------------------------------------------------------------------------
(* fltk::Rectangle *)

Rect(x, y, w, h) == [x |-> x, y |-> y, w |-> w, h |-> h]

Rr(r) == r.x + r.w
Rb(r) == r.y + r.h
Empty(r) == r.w <= 0 \/ r.h <= 0
MoveX(r, d) == [r EXCEPT !.x = @ + d, !.w = @ - d]
MoveY(r, d) == [r EXCEPT !.y = @ + d, !.h = @ - d]
MoveR(r, d) == [r EXCEPT !.w = @ + d]
MoveB(r, d) == [r EXCEPT !.h = @ + d]

----------------------------------------------------------------------------
(* Flags, colours and the backend primitives a draw() emits. *)

VALUE == "VALUE"
INACTIVE == "INACTIVE"
INVISIBLE == "INVISIBLE"

NoColor == [kind |-> "none", shade |-> 0, of |-> {}]
\* setcolor(c + (GRAY00-'A')): the gray shade c - 'A' steps above GRAY00
Gray(c) == [kind |-> "gray", shade |-> c - Ord("A"), of |-> {}]
\* the bg of style->boxcolors(flags, bg, fg)
BoxBg(flags) == [kind |-> "bg", shade |-> 0, of |-> flags]

SetColor(c) == [op |-> "setcolor", col |-> c, a |-> 0, b |-> 0, c |-> 0, d |-> 0]
DrawLine(x1, y1, x2, y2) ==
  [op |-> "drawline", col |-> NoColor, a |-> x1, b |-> y1, c |-> x2, d |-> y2]
FillRect(r) ==
  [op |-> "fillrect", col |-> NoColor, a |-> r.x, b |-> r.y, c |-> r.w, d |-> r.h]

----------------------------------------------------------------------------
(* The FrameBox instances: name, data() and the constructor's down box. *)

FrameBoxData ==
  [ down      |-> Str(<<"W","W","H","H","P","P","A","A">>),
    up        |-> Str(<<"A","A","W","W","H","H","T","T">>),
    thin_down |-> Str(<<"W","W","H","H">>),
    thin_up   |-> Str(<<"H","H","W","W">>),
    engraved  |-> Str(<<"2","H","H","W","W","W","W","H","H">>),
    embossed  |-> Str(<<"2","W","W","H","H","H","H","W","W">>),
    border    |-> Str(<<"H","H","H","H">>),
    \* application boxes, constructed like the built-in ones
    line      |-> Str(<<"A","A">>),
    ridge     |-> Str(<<"H","H","W","W","H","H">>),
    topline   |-> Str(<<"2","X","X">>) ]

BuiltinFrameBoxes ==
  {"down", "up", "thin_down", "thin_up", "engraved", "embossed", "border"}
FrameBoxes == DOMAIN FrameBoxData

\* the constructor's third argument d, "" for none (0)
FrameBoxDownArg ==
  [ down |-> "", up |-> "down", thin_down |-> "", thin_up |-> "thin_down",
    engraved |-> "down", embossed |-> "down", border |-> "down",
    line |-> "", ridge |-> "line", topline |-> "" ]

Data(b) == FrameBoxData[b]

\* down(d ? d : this)
Down(b) == IF FrameBoxDownArg[b] # "" THEN FrameBoxDownArg[b] ELSE b

FrameBoxCtorNoHalf(s) ==
  LET i == Len(s) \div 2
  IN  [dx |-> i, dy |-> i, dw |-> i, dh |-> i, fills_rectangle |-> 3]

\* FrameBox::FrameBox: boxinfo_ from strlen(s)
FrameBoxCtor(s) ==
  LET i == Len(s) \div 2
      j == i \div 2
  IN  [dx |-> j, dy |-> j, dw |-> i, dh |-> i, fills_rectangle |-> 3]

----------------------------------------------------------------------------
(* FrameBox::_draw *)

FlToInactiveEveryChar(s) ==
  [i \in 1..Len(s) |-> Ord("M") + CDiv(s[i] - Ord("A"), 3)]

\* fl_to_inactive: every character but a leading '2' becomes 'M'+(c-'A')/3
FlToInactive(s) ==
  [i \in 1..Len(s) |->
     IF i = 1 /\ s[1] = Ord("2") THEN s[1]
     ELSE Ord("M") + CDiv(s[i] - Ord("A"), 3)]

SelectPatternOwn(b, flags) == Data(b)

\* const char* s = data(); if (flags & VALUE) s = down->data();
SelectPattern(b, flags) == IF VALUE \in flags THEN Data(Down(b)) ELSE Data(b)

\* if (flags&INACTIVE && style->draw_boxes_inactive()) {fl_to_inactive(s, buf); s = buf;}
EffectivePattern(s, flags, inactiveBoxes) ==
  IF INACTIVE \in flags /\ inactiveBoxes THEN FlToInactive(s) ELSE s

EdgeLineShortOfCorner(side, r) ==
  CASE side = "bottom" -> DrawLine(r.x, Rb(r) - 1, Rr(r) - 2, Rb(r) - 1)
    [] side = "right"  -> DrawLine(Rr(r) - 1, r.y, Rr(r) - 1, Rb(r) - 2)
    [] side = "top"    -> DrawLine(r.x + 1, r.y, Rr(r) - 1, r.y)
    [] side = "left"   -> DrawLine(r.x, r.y + 1, r.x, Rb(r) - 1)

\* the drawline of one edge of the working rectangle r
EdgeLine(side, r) ==
  CASE side = "bottom" -> DrawLine(r.x, Rb(r) - 1, Rr(r) - 1, Rb(r) - 1)
    [] side = "right"  -> DrawLine(Rr(r) - 1, r.y, Rr(r) - 1, Rb(r) - 1)
    [] side = "top"    -> DrawLine(r.x, r.y, Rr(r) - 1, r.y)
    [] side = "left"   -> DrawLine(r.x, r.y, r.x, Rb(r) - 1)

ShrinkAfterByTwo(side, r) ==
  CASE side = "bottom" -> MoveB(r, -2)
    [] side = "right"  -> MoveR(r, -2)
    [] side = "top"    -> MoveY(r, 2)
    [] side = "left"   -> MoveX(r, 2)

\* r.move_b(-1), r.move_r(-1), r.move_y(1), r.move_x(1)
ShrinkAfter(side, r) ==
  CASE side = "bottom" -> MoveB(r, -1)
    [] side = "right"  -> MoveR(r, -1)
    [] side = "top"    -> MoveY(r, 1)
    [] side = "left"   -> MoveX(r, 1)

AxisExhaustedAtOne(side, r) ==
  IF side \in {"bottom", "top"} THEN r.h <= 1 ELSE r.w <= 1

\* if (r.h() <= 0) return;  if (r.w() <= 0) return;
AxisExhausted(side, r) ==
  IF side \in {"bottom", "top"} THEN r.h <= 0 ELSE r.w <= 0

\* if (!*s) break; stands after the right and after the left edge only
BreakTested(side) == side \in {"right", "left"}

NextSideClockwise(side) ==
  CASE side = "bottom" -> "left"
    [] side = "left"   -> "top"
    [] side = "top"    -> "right"
    [] side = "right"  -> "bottom"

\* the order of the edges in the body of the for (;;) loop
NextSide(side) ==
  CASE side = "bottom" -> "right"
    [] side = "right"  -> "top"
    [] side = "top"    -> "left"
    [] side = "left"   -> "bottom"

\* The for (;;) loop, entered at `side`.  exit: "early" (a return inside the
\* loop), "break" (pattern exhausted), "overrun" (an edge read the
\* terminating 0 as its colour: the pattern's edges are not paired).
RECURSIVE FrameLoop(_, _, _, _)
FrameLoop(s, r, side, ops) ==
  IF s = <<>> THEN [ops |-> ops, r |-> r, exit |-> "overrun"]
  ELSE
    LET ops2 == ops \o <<SetColor(Gray(Head(s))), EdgeLine(side, r)>>
        s2   == Tail(s)
        r2   == ShrinkAfter(side, r)
    IN  IF AxisExhausted(side, r2)
          THEN [ops |-> ops2, r |-> r2, exit |-> "early"]
        ELSE IF BreakTested(side) /\ s2 = <<>>
          THEN [ops |-> ops2, r |-> r2, exit |-> "break"]
        ELSE FrameLoop(s2, r2, NextSide(side), ops2)

PatternDrawFillsInvisible(s, R, flags, inactiveBoxes) ==
  LET s0   == EffectivePattern(s, flags, inactiveBoxes)
      hack == s0 # <<>> /\ s0[1] = Ord("2")
      res  == IF hack THEN FrameLoop(Tail(s0), R, "top", <<>>)
                      ELSE FrameLoop(s0, R, "bottom", <<>>)
  IN  IF res.exit # "break" THEN res
      ELSE [ops |-> res.ops \o <<SetColor(BoxBg(flags)), FillRect(res.r)>>,
            r |-> res.r, exit |-> "end"]

\* FrameBox::_draw from `char buf[26]` on, with s the pattern chosen;
\* inactiveBoxes is style->draw_boxes_inactive().
\* exit: "early", "end" (the closing brace), "overrun".
PatternDraw(s, R, flags, inactiveBoxes) ==
  LET s0   == EffectivePattern(s, flags, inactiveBoxes)
      hack == s0 # <<>> /\ s0[1] = Ord("2")
      res  == IF hack THEN FrameLoop(Tail(s0), R, "top", <<>>)
                      ELSE FrameLoop(s0, R, "bottom", <<>>)
  IN  IF res.exit # "break" THEN res
      ELSE IF INVISIBLE \notin flags
        THEN [ops |-> res.ops \o <<SetColor(BoxBg(flags)), FillRect(res.r)>>,
              r |-> res.r, exit |-> "end"]
      ELSE [ops |-> res.ops, r |-> res.r, exit |-> "end"]

\* FrameBox::_draw(R, style, flags) of the box b
FrameBoxDraw(b, R, flags, inactiveBoxes) ==
  IF Empty(R) THEN [ops |-> <<>>, r |-> R, exit |-> "empty"]
  ELSE PatternDraw(SelectPattern(b, flags), R, flags, inactiveBoxes)

----------------------------------------------------------------------------
(* FlatBox::_draw *)

FlatBoxDrawAlways(R, flags) ==
  IF Empty(R) THEN [ops |-> <<>>, r |-> R, exit |-> "empty"]
  ELSE [ops |-> <<SetColor(BoxBg(flags)), FillRect(R)>>, r |-> R, exit |-> "end"]

FlatBoxDraw(R, flags) ==
  IF INVISIBLE \in flags THEN [ops |-> <<>>, r |-> R, exit |-> "invisible"]
  ELSE IF Empty(R) THEN [ops |-> <<>>, r |-> R, exit |-> "empty"]
  ELSE [ops |-> <<SetColor(BoxBg(flags)), FillRect(R)>>, r |-> R, exit |-> "end"]

\* FlatBox::boxinfo
FlatBoxInfo == [dx |-> 0, dy |-> 0, dw |-> 0, dh |-> 0, fills_rectangle |-> 3]

----------------------------------------------------------------------------
(* The inputs of the draw calls. *)

MaxDim == 9
Dims == (-1)..MaxDim
Origins == {<<0, 0>>, <<3, 2>>}
DrawRects == {Rect(o[1], o[2], w, h) : o \in Origins, w \in Dims, h \in Dims}
DrawFlags == SUBSET {VALUE, INACTIVE, INVISIBLE}

NoCall == [box |-> "", R |-> Rect(0, 0, 0, 0), flags |-> {}, inactiveBoxes |-> FALSE]
NoOut == [ops |-> <<>>, r |-> Rect(0, 0, 0, 0), exit |-> "none"]

DrawBoxes == FrameBoxes \cup {"flat"}
DrawCalls ==
  [box : DrawBoxes, R : DrawRects, flags : DrawFlags, inactiveBoxes : BOOLEAN]

\* the static FrameBox objects, constructed before main()
BoxesConstructed == boxinfo = [b \in FrameBoxes |-> FrameBoxCtor(Data(b))]

\* no draw call is under way
BoxIdle == BoxesConstructed /\ call = NoCall /\ out = NoOut

\* a draw call with its arguments, about to run
BoxInit == BoxesConstructed /\ call \in DrawCalls /\ out = NoOut

\* box->draw(R, style, flags) on a FrameBox
DrawFrameBox ==
  /\ out.exit = "none" /\ call.box \in FrameBoxes
  /\ out' = FrameBoxDraw(call.box, call.R, call.flags, call.inactiveBoxes)
  /\ UNCHANGED <<boxinfo, call>>

\* FLAT_BOX->draw(R, style, flags)
DrawFlatBox ==
  /\ out.exit = "none" /\ call.box = "flat"
  /\ out' = FlatBoxDraw(call.R, call.flags)
  /\ UNCHANGED <<boxinfo, call>>

----------------------------------------------------------------------------
(* The other box variants: NoBox, BorderFrame, DottedFrame, HighlightBox. *)

FOCUSED == "FOCUSED"
HIGHLIGHT == "HIGHLIGHT"
SELECTED == "SELECTED"
PUSHED == "PUSHED"

\* the fg of style->boxcolors(flags, bg, fg)
BoxFg(flags) == [kind |-> "fg", shade |-> 0, of |-> flags]
\* style->textcolor()
TextColor == [kind |-> "text", shade |-> 0, of |-> {}]

StrokeRect(r) ==
  [op |-> "strokerect", col |-> NoColor, a |-> r.x, b |-> r.y, c |-> r.w, d |-> r.h]
\* the dotted outline of r that DottedFrame::_draw ends with
DottedRect(r) ==
  [op |-> "dottedrect", col |-> NoColor, a |-> r.x, b |-> r.y, c |-> r.w, d |-> r.h]

\* NoBox::_draw
NoBoxDraw(R, flags) == [ops |-> <<>>, r |-> R, exit |-> "end"]

\* BorderFrame::_draw: setcolor(style->textcolor()); strokerect(r);
BorderFrameDraw(R, flags) ==
  [ops |-> <<SetColor(TextColor), StrokeRect(R)>>, r |-> R, exit |-> "end"]

\* BorderFrame::boxinfo
BorderFrameInfo == [dx |-> 1, dy |-> 1, dw |-> 2, dh |-> 2, fills_rectangle |-> 0]

DottedFrameShrinkAlways(r, w, axis) ==
  IF w > 3 THEN [r |-> IF axis = "x" THEN MoveR(MoveX(r, 1), -1)
                                     ELSE MoveB(MoveY(r, 1), -1), ok |-> TRUE]
  ELSE [r |-> r, ok |-> FALSE]

\* if (r.w() > 4) {r.move_x(1); r.move_r(-1);} else if (r.w() > 3)
\* r.move_r(-1); else return;  and the same for the height
DottedFrameShrink(r, w, axis) ==
  IF w > 4 THEN [r |-> IF axis = "x" THEN MoveR(MoveX(r, 1), -1)
                                     ELSE MoveB(MoveY(r, 1), -1), ok |-> TRUE]
  ELSE IF w > 3 THEN [r |-> IF axis = "x" THEN MoveR(r, -1) ELSE MoveB(r, -1),
                      ok |-> TRUE]
  ELSE [r |-> r, ok |-> FALSE]

\* DottedFrame::_draw
DottedFrameDraw(R, flags) ==
  IF FOCUSED \notin flags THEN [ops |-> <<>>, r |-> R, exit |-> "unfocused"]
  ELSE
    LET sx == DottedFrameShrink(R, R.w, "x")
        sy == DottedFrameShrink(sx.r, sx.r.h, "y")
    IN  IF ~sx.ok THEN [ops |-> <<>>, r |-> sx.r, exit |-> "narrow"]
        ELSE IF ~sy.ok THEN [ops |-> <<>>, r |-> sy.r, exit |-> "low"]
        ELSE [ops |-> <<SetColor(BoxFg(flags)), DottedRect(sy.r)>>,
              r |-> sy.r, exit |-> "end"]

\* the HighlightBox instances and the box each is constructed with
HighlightBoxDown == [highlight_up |-> "thin_up", highlight_down |-> "thin_down"]
HighlightBoxes == DOMAIN HighlightBoxDown

HighlightActiveNoPushed(flags) == flags \cap {HIGHLIGHT, SELECTED, VALUE} # {}

\* flags & (HIGHLIGHT|SELECTED|VALUE|PUSHED)
HighlightActive(flags) == flags \cap {HIGHLIGHT, SELECTED, VALUE, PUSHED} # {}

\* HighlightBox::_draw
HighlightBoxDraw(b, R, flags, inactiveBoxes) ==
  IF HighlightActive(flags)
    THEN FrameBoxDraw(HighlightBoxDown[b], R, flags, inactiveBoxes)
    ELSE FlatBoxDraw(R, flags)

\* HighlightBox::boxinfo
HighlightBoxInfo(b) == FrameBoxCtor(Data(HighlightBoxDown[b]))

\* Every variant under every flag set, on rectangles about the sizes at
\* which DottedFrame changes its mind.
MaxVDim == 5
VariantDims == {-1, 0} \cup (3..MaxVDim)
VariantRects == {Rect(3, 2, w, h) : w \in VariantDims, h \in VariantDims}
AllFlags ==
  SUBSET {VALUE, INACTIVE, INVISIBLE, FOCUSED, HIGHLIGHT, SELECTED, PUSHED}
VariantBoxes ==
  BuiltinFrameBoxes \cup HighlightBoxes \cup {"flat", "none", "border_frame", "dotted_frame"}
VariantCalls ==
  [box : VariantBoxes, R : VariantRects, flags : AllFlags, inactiveBoxes : BOOLEAN]

VariantInit == BoxesConstructed /\ call \in VariantCalls /\ out = NoOut

DrawNoBox ==
  /\ out.exit = "none" /\ call.box = "none"
  /\ out' = NoBoxDraw(call.R, call.flags)
  /\ UNCHANGED <<boxinfo, call>>

DrawBorderFrame ==
  /\ out.exit = "none" /\ call.box = "border_frame"
  /\ out' = BorderFrameDraw(call.R, call.flags)
  /\ UNCHANGED <<boxinfo, call>>

DrawDottedFrame ==
  /\ out.exit = "none" /\ call.box = "dotted_frame"
  /\ out' = DottedFrameDraw(call.R, call.flags)
  /\ UNCHANGED <<boxinfo, call>>

DrawHighlightBox ==
  /\ out.exit = "none" /\ call.box \in HighlightBoxes
  /\ out' = HighlightBoxDraw(call.box, call.R, call.flags, call.inactiveBoxes)
  /\ UNCHANGED <<boxinfo, call>>

----------------------------------------------------------------------------
(* StatusBarGroup: geometry *)

BORDER_WIDTH == 2
SBAR_LEFT == 0
SBAR_CENTER == 1
SBAR_RIGHT == 2
Positions == {SBAR_LEFT, SBAR_CENTER, SBAR_RIGHT}

\* box->boxinfo() of the boxes a widget of the model may have
BoxInfoOf(b) == IF b = "flat" THEN FlatBoxInfo ELSE boxinfo[b]
\* box_dx(box), box_dy(box), box_dw(box), box_dh(box)
BoxDx(b) == BoxInfoOf(b).dx
BoxDy(b) == BoxInfoOf(b).dy
BoxDw(b) == BoxInfoOf(b).dw
BoxDh(b) == BoxInfoOf(b).dh

\* Box::inset applied to (0, 0, w, h): the rectangle a group's box leaves to
\* its children, in the group's own coordinates
ContentRect(b, sz) == Rect(BoxDx(b), BoxDy(b), sz[1] - BoxDw(b), sz[2] - BoxDh(b))

\* box(THIN_DOWN_BOX) in init()
StripBox == "thin_down"

ResizedStripFromOwnWidth(st, pb, sz) ==
  [x |-> BoxDx(pb), y |-> sz[2] - BoxDh(pb) - st.h,
   w |-> st.w - BoxDw(pb), h |-> st.h]

\* x(box_dx(parent()->box())); w(parent()->w()-box_dw(parent()->box()));
\* y(parent()->h()-box_dh(parent()->box())-h());
ResizedStrip(st, pb, sz) ==
  [x |-> BoxDx(pb), y |-> sz[2] - BoxDh(pb) - st.h,
   w |-> sz[1] - BoxDw(pb), h |-> st.h]

ShrunkSiblingNoFloor(s, stripY) ==
  LET delta == Rb(s) - stripY
  IN  IF delta > 0
        THEN [s EXCEPT !.h = s.h - delta,
                       !.sizes = IF s.isGroup THEN FALSE ELSE @]
        ELSE s

\* the body of the sibling loop for one child w != this
ShrunkSibling(s, stripY) ==
  LET delta == Rb(s) - stripY
  IN  IF delta > 0
        THEN [s EXCEPT !.h = IF s.h - delta > 0 THEN s.h - delta ELSE 0,
                       !.sizes = IF s.isGroup THEN FALSE ELSE @]
        ELSE s

\* b->measure_label(X, Y): the width of the label in the widget's font
MeasureLabelW(label) == 5 * Len(label)

UpdateBoxPadsByDx(b, pos, st, childBox) ==
  LET X == MeasureLabelW(b.label) + (BoxDx(childBox) * 2 + 1) * 2
      H == st.h - (BoxDh(StripBox) + BORDER_WIDTH) * 2
  IN  [b EXCEPT !.w = X, !.h = H,
                !.x = CASE pos = SBAR_LEFT   -> BoxDx(StripBox)
                        [] pos = SBAR_CENTER -> CDiv(Rr(st) - X, 2)
                        [] pos = SBAR_RIGHT  -> Rr(st) - X - BoxDw(StripBox) - BORDER_WIDTH]

UpdateBoxCentredInWidth(b, pos, st, childBox) ==
  LET X == MeasureLabelW(b.label) + (BoxDw(childBox) + 1) * 2
      H == st.h - (BoxDh(StripBox) + BORDER_WIDTH) * 2
  IN  [b EXCEPT !.w = X, !.h = H,
                !.x = CASE pos = SBAR_LEFT   -> BoxDx(StripBox)
                        [] pos = SBAR_CENTER -> CDiv(st.w - X, 2)
                        [] pos = SBAR_RIGHT  -> Rr(st) - X - BoxDw(StripBox) - BORDER_WIDTH]

\* StatusBarGroup::update_box(b, pos) for b != 0, with the strip at st
UpdateBox(b, pos, st, childBox) ==
  LET X == MeasureLabelW(b.label) + (BoxDw(childBox) + 1) * 2
      H == st.h - (BoxDh(StripBox) + BORDER_WIDTH) * 2
  IN  [b EXCEPT !.w = X, !.h = H,
                !.x = CASE pos = SBAR_LEFT   -> BoxDx(StripBox)
                        [] pos = SBAR_CENTER -> CDiv(Rr(st) - X, 2)
                        [] pos = SBAR_RIGHT  -> Rr(st) - X - BoxDw(StripBox) - BORDER_WIDTH]

\* for (i=0; i<3;i++) update_box(tf_[i], (StatusBarGroup::Position) i);
UpdatedHeap(hp, slots, st, boxes) ==
  [id \in DOMAIN hp |->
     IF \E p \in Positions : slots[p] = id
       THEN LET p == CHOOSE q \in Positions : slots[q] = id
            IN  UpdateBox(hp[id], p, st, boxes[p])
       ELSE hp[id]]

\* StatusBarGroup::resize_from_parent, run with the strip at st, the
\* siblings at sibs and the parent of the size sz
ResizeFromParent(st, sibs, sz) ==
  IF ~hasParent THEN strip' = st /\ sib' = sibs /\ UNCHANGED heap
  ELSE
    LET st2 == ResizedStrip(st, pbox, sz)
    IN  /\ strip' = st2
        /\ sib' = [i \in DOMAIN sibs |-> ShrunkSibling(sibs[i], st2.y)]
        /\ heap' = UpdatedHeap(heap, tf, st2, bch)

----------------------------------------------------------------------------
(* StatusBarGroup: the label slots *)

\* a const char* argument: the null pointer, or a string
NullText == [null |-> TRUE, s |-> ""]
Txt(s) == [null |-> FALSE, s |-> s]
\* !t || !*t
IsEmptyText(t) == t.null \/ t.s = ""

MaxObj == 4
ObjIds == 1..MaxObj
\* operator new for the text box of position pos: an address no live object
\* has (the one after pos if it is free, to keep equal heaps equal)
NewId(hp, pos) ==
  IF pos + 1 \notin DOMAIN hp THEN pos + 1
  ELSE CHOOSE i \in ObjIds \ DOMAIN hp : \A j \in ObjIds \ DOMAIN hp : i <= j

\* delete w: Widget::~Widget takes w out of its parent's child list
Released(hp, id) == [i \in DOMAIN hp \ {id} |-> hp[i]]
Removed(cs, id) == SelectSeq(cs, LAMBDA c : c # id)

\* new InvisibleBox(b_[pos], box_dx(box()), box_dh(box())+BORDER_WIDTH, 10, 10, 0)
\* and align(ALIGN_LEFT|ALIGN_INSIDE)
NewTextBox(childBox) ==
  [box |-> childBox, x |-> BoxDx(StripBox), y |-> BoxDh(StripBox) + BORDER_WIDTH,
   w |-> 10, h |-> 10, label |-> "", align |-> {"LEFT", "INSIDE"}]

\* static char buffer[512], zero-initialised: the string it holds, and the
\* number of bytes the last vsprintf wrote past its end
NoBuffer == [s |-> "", over |-> 0]

NoRt == [stage |-> 0, pos |-> 0, preChildren |-> <<>>,
         preTf |-> [p \in Positions |-> 0], preHeap |-> <<>>]
\* no set() yet, or the last one had a null or empty text
NoText == [empty |-> TRUE, s |-> ""]

\* history of set(t, pos): the last text of each position, and the progress
\* of a set(text) / set(empty) pair on one position
SetHistory(t, pos) ==
  /\ lastSet' = [lastSet EXCEPT ![pos] =
                   [empty |-> IsEmptyText(t),
                    s |-> IF IsEmptyText(t) THEN "" ELSE t.s]]
  /\ rt' = IF ~IsEmptyText(t) /\ tf[pos] = 0
             THEN [stage |-> 1, pos |-> pos, preChildren |-> children, preTf |-> tf,
                   preHeap |-> heap]
           ELSE IF IsEmptyText(t) /\ rt.stage \in {1, 2} /\ rt.pos = pos
             THEN [rt EXCEPT !.stage = @ + 1]
           ELSE IF IsEmptyText(t) /\ rt.stage = 3 /\ rt.pos = pos
             THEN rt
           ELSE NoRt

SetClearKeepsSlot(pos) ==
  /\ UNCHANGED <<tf, heap, children, current, damage>>

\* if (!t || !*t) { if (tf_[pos]) {delete tf_[pos]; tf_[pos]=0;} return; }
SetClear(pos) ==
  IF tf[pos] # 0
    THEN /\ heap' = Released(heap, tf[pos])
         /\ children' = Removed(children, tf[pos])
         /\ tf' = [tf EXCEPT ![pos] = 0]
         /\ UNCHANGED <<current, damage>>
    ELSE UNCHANGED <<tf, heap, children, current, damage>>

SetLabelAlwaysNew(t, pos) ==
  /\ ObjIds \ DOMAIN heap # {}
  /\ LET id == NewId(heap, pos)
         b  == [NewTextBox(bch[pos]) EXCEPT !.label = t.s]
     IN  /\ tf' = [tf EXCEPT ![pos] = id]
         /\ children' = Append(children, id)
         /\ current' = ""
         /\ heap' = [i \in DOMAIN heap \cup {id} |->
                       IF i = id THEN UpdateBox(b, pos, strip, bch[pos]) ELSE heap[i]]
  /\ damage' = TRUE

\* the rest of set(): create the box if there is none, copy_label(t),
\* update_box(tf_[pos], pos), redraw()
SetLabel(t, pos) ==
  /\ tf[pos] = 0 => ObjIds \ DOMAIN heap # {}
  /\ LET fresh == tf[pos] = 0
         id == IF fresh THEN NewId(heap, pos) ELSE tf[pos]
         b0 == IF fresh THEN NewTextBox(bch[pos]) ELSE heap[id]
         b  == [b0 EXCEPT !.label = t.s]
     IN  /\ tf' = [tf EXCEPT ![pos] = id]
         /\ children' = IF fresh THEN Append(children, id) ELSE children
         /\ current' = IF fresh THEN "" ELSE current
         /\ heap' = [i \in DOMAIN heap \cup {id} |->
                       IF i = id THEN UpdateBox(b, pos, strip, bch[pos]) ELSE heap[i]]
  /\ damage' = TRUE

\* the body of set(const char* t, Position pos), whoever calls it
SetBody(t, pos) ==
  /\ sbAlive
  /\ IF IsEmptyText(t) THEN SetClear(pos) ELSE SetLabel(t, pos)
  /\ SetHistory(t, pos)
  /\ UNCHANGED <<sbAlive, hasParent, psize, pbox, strip, sib, bch>>
  /\ UNCHANGED boxVars

\* StatusBarGroup::set(const char* t, Position pos)
Set(t, pos) == SetBody(t, pos) /\ UNCHANGED buffer

\* StatusBarGroup::child_box(Box* b, Position i)
ChildBox(b, i) ==
  /\ sbAlive
  /\ bch' = [bch EXCEPT ![i] = b]
  /\ heap' = IF tf[i] # 0 THEN [heap EXCEPT ![tf[i]].box = b] ELSE heap
  /\ rt' = NoRt
  /\ UNCHANGED <<sbAlive, hasParent, psize, pbox, strip, sib, tf,
                 children, current, damage, lastSet, buffer>>
  /\ UNCHANGED boxVars

\* StatusBarGroup::layout: Group::layout() leaves the children of a group
\* with resizable(0) where they are; then resize_from_parent()
Layout ==
  /\ sbAlive
  /\ ResizeFromParent(strip, sib, psize)
  /\ rt' = NoRt
  /\ UNCHANGED <<sbAlive, hasParent, psize, pbox, tf, bch, children, current,
                 damage, lastSet, buffer>>
  /\ UNCHANGED boxVars

\* ~StatusBarGroup deletes tf_[0..2]; ~Group then deletes the children left
Destroy ==
  /\ sbAlive
  /\ sbAlive' = FALSE
  /\ LET own == {tf[p] : p \in Positions} \ {0}
         rest == {children[i] : i \in 1..Len(children)} \ own
     IN  heap' = [i \in (DOMAIN heap \ own) \ rest |-> heap[i]]
  /\ tf' = [p \in Positions |-> 0]
  /\ children' = <<>>
  /\ rt' = NoRt
  /\ UNCHANGED <<hasParent, psize, pbox, strip, sib, bch, current,
                 damage, lastSet, buffer>>
  /\ UNCHANGED boxVars

----------------------------------------------------------------------------
(* The strip's surroundings: the parent group and its other children. *)

NSib == 2
\* a child of the parent that is no group, and one that is a group with
\* sizes remembered (sizes) and a child of its own filling it (kids)
Widget(x, y, w, h) ==
  [x |-> x, y |-> y, w |-> w, h |-> h, isGroup |-> FALSE, sizes |-> FALSE,
   kids |-> <<>>]
GroupW(x, y, w, h) ==
  [x |-> x, y |-> y, w |-> w, h |-> h, isGroup |-> TRUE, sizes |-> TRUE,
   kids |-> <<Rect(0, 0, w, h)>>]

\* The surroundings and the arguments that Spec, the specification of the
\* label slots, draws from: one parent, every text, every child box.
SlotEnv ==
  [ sizes  |-> {<<40, 20>>},
    boxes  |-> {"thin_down"},
    strips |-> {Rect(0, 0, 0, 10)},
    sibs   |-> {GroupW(5, 4, 20, 10)},
    texts  |-> {NullText, Txt(""), Txt("a"), Txt("abc")},
    cboxes |-> {"flat", "thin_down"} ]

\* Those of SpecLayout, the specification of the geometry: parents of
\* several sizes and boxes, siblings above, across and below the strip;
\* the text fields keep the box init() gives them.
LayoutEnv ==
  [ sizes  |-> {<<40, 20>>, <<60, 30>>},
    boxes  |-> {"flat", "down"},
    strips |-> {Rect(0, 0, 0, 10), Rect(7, 3, 25, 14)},
    sibs   |-> {Widget(0, 0, 40, 5), GroupW(5, 4, 20, 10), Widget(2, 25, 10, 4)},
    texts  |-> {Txt(""), Txt("abc")},
    cboxes |-> {"flat"} ]

\* Those of SpecSize, the specification of the slots' sizes: strips of two
\* heights, and text fields with no border, with a symmetric one and with
\* one of a single pixel ("line").
SizeEnv ==
  [ sizes  |-> {<<40, 20>>},
    boxes  |-> {"flat"},
    strips |-> {Rect(0, 0, 0, 10), Rect(0, 0, 0, 14)},
    sibs   |-> {Widget(0, 0, 40, 5)},
    texts  |-> {Txt(""), Txt("abc")},
    cboxes |-> {"flat", "thin_down", "line"} ]

\* A layout pass of the parent: the parent has the size sz, its generic pass
\* gives the strip the rectangle r and the sibling i the rectangle s, and it
\* then calls the strip's layout().
ParentLayout(sz, r, i, s) ==
  /\ sbAlive /\ hasParent
  /\ psize' = sz
  /\ ResizeFromParent(r, [sib EXCEPT ![i] = s], sz)
  /\ rt' = NoRt
  /\ UNCHANGED <<sbAlive, hasParent, pbox, tf, bch, children, current,
                 damage, lastSet, buffer>>
  /\ UNCHANGED boxVars

\* the state after the constructor: Group(X, Y, W, H) and init()
SBInit(env) ==
  /\ sbAlive = TRUE
  /\ hasParent \in BOOLEAN
  /\ psize \in env.sizes
  /\ pbox \in env.boxes
  /\ \E r \in env.strips, ss \in [1..NSib -> env.sibs] :
       IF hasParent
         THEN /\ strip = ResizedStrip(r, pbox, psize)
              /\ sib = [i \in 1..NSib |-> ShrunkSibling(ss[i], strip.y)]
         ELSE /\ strip = r
              /\ sib = <<>>
  /\ tf = [p \in Positions |-> 0]
  /\ bch = [p \in Positions |-> "flat"]
  /\ heap = <<>>
  /\ children = <<>>
  /\ current = "strip"
  /\ damage = FALSE
  /\ lastSet = [p \in Positions |-> NoText]
  /\ rt = NoRt
  /\ buffer = NoBuffer

SBIdle ==
  /\ sbAlive = FALSE
  /\ hasParent = FALSE
  /\ psize = <<0, 0>>
  /\ pbox = "flat"
  /\ strip = Rect(0, 0, 0, 0)
  /\ sib = <<>>
  /\ tf = [p \in Positions |-> 0]
  /\ bch = [p \in Positions |-> "flat"]
  /\ heap = <<>>
  /\ children = <<>>
  /\ current = ""
  /\ damage = FALSE
  /\ lastSet = [p \in Positions |-> NoText]
  /\ rt = NoRt
  /\ buffer = NoBuffer

----------------------------------------------------------------------------
(* StatusBarGroup::set(Position, const char* format, ...) *)

BufSize == 512

DigitChars == <<"0", "1", "2", "3", "4", "5", "6", "7", "8", "9">>

\* %d of a non-negative int
RECURSIVE UtoA(_)
UtoA(n) ==
  IF n < 10 THEN DigitChars[n + 1]
  ELSE UtoA(n \div 10) \o DigitChars[(n % 10) + 1]

\* %d
ItoA(n) == IF n < 0 THEN "-" \o UtoA(-n) ELSE UtoA(n)

\* A format is the sequence of its pieces, literal text or a conversion;
\* a variable argument is an int or a string.
Lit(s) == [conv |-> "", lit |-> s]
Conv(c) == [conv |-> c, lit |-> ""]
IntArg(n) == [n |-> n, s |-> ""]
StrArg(s) == [n |-> 0, s |-> s]

\* what vsprintf produces from the format and the arguments
RECURSIVE Render(_, _)
Render(fmt, args) ==
  IF fmt = <<>> THEN ""
  ELSE LET p == Head(fmt)
       IN  IF p.conv = "" THEN p.lit \o Render(Tail(fmt), args)
           ELSE (IF p.conv = "d" THEN ItoA(Head(args).n) ELSE Head(args).s)
                  \o Render(Tail(fmt), Tail(args))

\* vsprintf(buffer, format, args): it writes the result and its terminator
\* from buffer[0] on, however long the result is
Vsprintf(fmt, args) ==
  LET s == Render(fmt, args)
  IN  [s |-> s, over |-> IF Len(s) + 1 > BufSize THEN Len(s) + 1 - BufSize ELSE 0]

\* What set(buffer, pos) then reads.  Writing past the buffer is undefined:
\* the string may be read back whole, or cut where the buffer ends.
BufferReads(b) ==
  IF b.over = 0 THEN {b.s} ELSE {b.s, SubSeq(b.s, 1, BufSize - 1)}

\* StatusBarGroup::set(Position pos, const char* format, ...)
SetFormatted(pos, fmt, args) ==
  LET b == Vsprintf(fmt, args)
  IN  \E read \in BufferReads(b) :
        /\ buffer' = [s |-> read, over |-> b.over]
        /\ SetBody(Txt(read), pos)

RECURSIVE Rep(_, _)
Rep(s, n) ==
  IF n = 0 THEN ""
  ELSE LET h == Rep(s, n \div 2)
       IN  h \o h \o (IF n % 2 = 1 THEN s ELSE "")

\* the calls of the formatted set(): a number, an empty result, results of
\* one less than, exactly and more than the buffer's size
FormatCalls ==
  {[fmt |-> <<Conv("d"), Lit(" items")>>, args |-> <<IntArg(n)>>] : n \in {5}}
  \cup {[fmt |-> <<Conv("s")>>, args |-> <<StrArg(s)>>] :
          s \in {"", Rep("x", BufSize - 1), Rep("x", BufSize)}}
  \cup {[fmt |-> <<Lit("n="), Conv("d"), Conv("s")>>,
         args |-> <<IntArg(-12), StrArg("ok")>>]}

FormatEnv ==
  [ sizes  |-> {<<40, 20>>},
    boxes  |-> {"thin_down"},
    strips |-> {Rect(0, 0, 0, 10)},
    sibs   |-> {GroupW(5, 4, 20, 10)},
    texts  |-> {Txt(""), Txt("5 items")},
    cboxes |-> {"flat"} ]

----------------------------------------------------------------------------
(* CycleButton::handle *)

\* A CycleButton is the sequence of its items' takesevents() (item i of the
\* code is items[i + 1]), value() and the static held_down pointer:
\* "this", "other" (another CycleButton) or "none" (0).
Button(items, value, held) == [items |-> items, value |-> value, held |-> held]

\* An event: e, and what event_button(), event_state(CTRL|SHIFT|ALT|META),
\* event_key(), event_inside(), test_shortcut() answer during it; hit is
\* the item Menu::handle_shortcut() finds, -1 for none.
Event(e, button, mods, key, inside, shortcut, hit) ==
  [e |-> e, button |-> button, mods |-> mods, key |-> key, inside |-> inside,
   shortcut |-> shortcut, hit |-> hit]

\* the result of handle(): the button afterwards, the return value, the
\* item executed (-1 for none), and whether redraw was asked for
Handled(b, ret, executed, redrawn) ==
  [ops |-> <<>>, r |-> Rect(0, 0, 0, 0), exit |-> "handled",
   button |-> b, ret |-> ret, executed |-> executed, redrawn |-> redrawn]

\* try_item(choice, i)
TryItem(b, i) == b.items[i + 1]

StepOfStopsAtEnd(j, n, dir) ==
  IF dir = "UP" THEN (IF j - 1 < 0 THEN 0 ELSE j - 1)
  ELSE (IF j + 1 >= n THEN n - 1 ELSE j + 1)

\* if (--j < 0) j = children-1;   if (++j >= children) j = 0;
StepOf(j, n, dir) ==
  IF dir = "UP" THEN (IF j - 1 < 0 THEN n - 1 ELSE j - 1)
  ELSE (IF j + 1 >= n THEN 0 ELSE j + 1)

\* the for (;;) loop after UP: or DOWN:, at j, started from i
RECURSIVE CycleLoop(_, _, _, _, _)
CycleLoop(b, i, j, dir, redrawn) ==
  LET n  == Len(b.items)
      j2 == StepOf(j, n, dir)
  IN  IF j2 = i THEN Handled(b, 0, -1, redrawn)
      ELSE IF TryItem(b, j2)
        THEN Handled([b EXCEPT !.value = j2], 1, j2, TRUE)
      ELSE CycleLoop(b, i, j2, dir, redrawn)

\* UP: and DOWN: with i = value(); if (i < 0) i = 0;
Cycle(b, dir, redrawn) ==
  LET i == IF b.value < 0 THEN 0 ELSE b.value
  IN  CycleLoop(b, i, i, dir, redrawn)

ReleaseDirNoModifiers(ev) == IF ev.button > 1 THEN "UP" ELSE "DOWN"

\* if (event_button()>1 || event_state(CTRL|SHIFT|ALT|META)) goto UP; else goto DOWN;
ReleaseDir(ev) == IF ev.button > 1 \/ ev.mods # {} THEN "UP" ELSE "DOWN"

CycleHandleHoldsOutside(b, ev) ==
  IF Len(b.items) = 0 THEN Handled(b, 0, -1, FALSE)
  ELSE CASE ev.e \in {"FOCUS", "UNFOCUS"} -> Handled(b, 1, -1, TRUE)
         [] ev.e \in {"ENTER", "LEAVE"} -> Handled(b, 1, -1, TRUE)
         [] ev.e = "MOVE" -> Handled(b, 1, -1, FALSE)
         [] ev.e \in {"PUSH", "DRAG"} ->
              IF ev.inside
                THEN IF b.held # "this"
                       THEN Handled([b EXCEPT !.held = "this"], 1, -1, TRUE)
                       ELSE Handled(b, 1, -1, FALSE)
                ELSE Handled(b, 1, -1, FALSE)
         [] ev.e = "RELEASE" ->
              IF b.held # "this" THEN Handled(b, 0, -1, FALSE)
              ELSE Cycle([b EXCEPT !.held = "none"], ReleaseDir(ev), TRUE)
         [] ev.e = "SHORTCUT" ->
              IF ev.shortcut THEN Cycle(b, "DOWN", FALSE)
              ELSE IF ev.hit >= 0 /\ ev.hit < Len(b.items)
                THEN Handled([b EXCEPT !.value = ev.hit], 1, ev.hit, TRUE)
              ELSE Handled(b, 0, -1, FALSE)
         [] ev.e = "KEY" ->
              IF ev.key = "UpKey" THEN Cycle(b, "UP", FALSE)
              ELSE IF ev.key \in {"DownKey", "ReturnKey", "SpaceKey"}
                THEN Cycle(b, "DOWN", FALSE)
              ELSE Handled(b, 0, -1, FALSE)
         [] OTHER -> Handled(b, 0, -1, FALSE)

\* CycleButton::handle(e)
CycleHandle(b, ev) ==
  IF Len(b.items) = 0 THEN Handled(b, 0, -1, FALSE)
  ELSE CASE ev.e \in {"FOCUS", "UNFOCUS"} -> Handled(b, 1, -1, TRUE)
         [] ev.e \in {"ENTER", "LEAVE"} -> Handled(b, 1, -1, TRUE)
         [] ev.e = "MOVE" -> Handled(b, 1, -1, FALSE)
         [] ev.e \in {"PUSH", "DRAG"} ->
              IF ev.inside
                THEN IF b.held # "this"
                       THEN Handled([b EXCEPT !.held = "this"], 1, -1, TRUE)
                       ELSE Handled(b, 1, -1, FALSE)
                ELSE IF b.held # "none"
                       THEN Handled([b EXCEPT !.held = "none"], 1, -1, TRUE)
                       ELSE Handled(b, 1, -1, FALSE)
         [] ev.e = "RELEASE" ->
              IF b.held # "this" THEN Handled(b, 0, -1, FALSE)
              ELSE Cycle([b EXCEPT !.held = "none"], ReleaseDir(ev), TRUE)
         [] ev.e = "SHORTCUT" ->
              IF ev.shortcut THEN Cycle(b, "DOWN", FALSE)
              ELSE IF ev.hit >= 0 /\ ev.hit < Len(b.items)
                THEN Handled([b EXCEPT !.value = ev.hit], 1, ev.hit, TRUE)
              ELSE Handled(b, 0, -1, FALSE)
         [] ev.e = "KEY" ->
              IF ev.key = "UpKey" THEN Cycle(b, "UP", FALSE)
              ELSE IF ev.key \in {"DownKey", "ReturnKey", "SpaceKey"}
                THEN Cycle(b, "DOWN", FALSE)
              ELSE Handled(b, 0, -1, FALSE)
         [] OTHER -> Handled(b, 0, -1, FALSE)

\* The buttons and the events handle() is given.
MaxItems == 4
ItemLists == UNION {[1..n -> BOOLEAN] : n \in 0..MaxItems}
Buttons ==
  {Button(items, v, h) : items \in ItemLists, v \in (-1)..(MaxItems - 1),
                         h \in {"this", "other", "none"}}
Modifiers == {{}, {"SHIFT"}, {"CTRL"}, {"ALT"}, {"META"}, {"CTRL", "SHIFT"}}
PlainEvent(e) == Event(e, 0, {}, "", FALSE, FALSE, -1)
Events ==
  {Event("RELEASE", bt, m, "", TRUE, FALSE, -1) : bt \in 1..3, m \in Modifiers}
  \cup {Event("KEY", 0, {}, k, FALSE, FALSE, -1) :
          k \in {"UpKey", "DownKey", "ReturnKey", "SpaceKey", "TabKey"}}
  \cup {Event("SHORTCUT", 0, {}, "", FALSE, s, h) : s \in BOOLEAN, h \in {-1, 0}}
  \cup {Event(e, 1, {}, "", i, FALSE, -1) : e \in {"PUSH", "DRAG"}, i \in BOOLEAN}
  \cup {PlainEvent(e) : e \in {"FOCUS", "UNFOCUS", "ENTER", "LEAVE", "MOVE", "PASTE"}}

\* value() is an item's index, or -1 for none, whenever there are items
CycleCalls ==
  {[box |-> "", R |-> Rect(0, 0, 0, 0), flags |-> {}, inactiveBoxes |-> FALSE,
    button |-> b, event |-> ev] :
     b \in {c \in Buttons : c.value < Len(c.items) \/ c.value = 0}, ev \in Events}

CycleInit == BoxesConstructed /\ call \in CycleCalls /\ out = NoOut

\* button->handle(e)
HandleEvent ==
  /\ out.exit = "none"
  /\ out' = CycleHandle(call.button, call.event)
  /\ UNCHANGED <<boxinfo, call>>

----------------------------------------------------------------------------
(* CycleButton::handle: the turns of the loops after UP: and DOWN: *)

\* how a loop was left ("break", "return", or "running" if it was not) and
\* the items it gave to try_item, in order
Looped(tried, exit) ==
  [ops |-> <<>>, r |-> Rect(0, 0, 0, 0), exit |-> exit, tried |-> tried]

\* The for (;;) loop turn by turn, at j, started from i.  It is followed
\* for one turn more than there are items; a loop still turning then is
\* reported as "running".
RECURSIVE LoopTurns(_, _, _, _, _, _)
LoopTurns(b, i, j, dir, turns, tried) ==
  LET n  == Len(b.items)
      j2 == StepOf(j, n, dir)
  IN  IF turns > n THEN Looped(tried, "running")
      ELSE IF j2 = i THEN Looped(tried, "break")
      ELSE IF TryItem(b, j2) THEN Looped(Append(tried, j2), "return")
      ELSE LoopTurns(b, i, j2, dir, turns + 1, Append(tried, j2))

\* the loops are entered with at least one child and value() in -1..children-1
LoopCalls ==
  {[button |-> b, dir |-> d] :
     b \in {c \in Buttons : /\ Len(c.items) >= 1 /\ c.value < Len(c.items)
                            /\ c.held = "none"},
     d \in {"UP", "DOWN"}}

LoopInit == BoxesConstructed /\ call \in LoopCalls /\ out = NoOut

\* UP: or DOWN: to the return
RunLoop ==
  /\ out.exit = "none"
  /\ LET i == IF call.button.value < 0 THEN 0 ELSE call.button.value
     IN  out' = LoopTurns(call.button, i, i, call.dir, 0, <<>>)
  /\ UNCHANGED <<boxinfo, call>>

----------------------------------------------------------------------------
(* CycleButton: a sequence of mouse events on two CycleButtons *)

\* The buttons pressed: `call` holds the button before the last event, the
\* event, who handled it ("this" or "other", the second CycleButton) and
\* whether this button's last PUSH or DRAG before it was inside ("inside",
\* "outside", "none"); `out` holds what handle() returned.
MaxPressItems == 3
PressButtons ==
  {Button(items, v, "none") :
     items \in UNION {[1..n -> BOOLEAN] : n \in 0..MaxPressItems},
     v \in 0..(MaxPressItems - 1)}
PressEvents ==
  {Event(e, 1, {}, "", i, FALSE, -1) : e \in {"PUSH", "DRAG"}, i \in BOOLEAN}
  \cup {Event("RELEASE", bt, {}, "", TRUE, FALSE, -1) : bt \in 1..2}

PressInit ==
  /\ BoxesConstructed
  /\ \E b \in {c \in PressButtons : c.value < Len(c.items) \/ c.value = 0} :
       call = [button |-> b, event |-> PlainEvent("NO_EVENT"), who |-> "this",
               last |-> "none"]
  /\ out = NoOut

\* the button now, and its last PUSH or DRAG now
PressedButton == IF out.exit = "none" THEN call.button ELSE out.button
LastPress ==
  IF call.who = "this" /\ call.event.e \in {"PUSH", "DRAG"}
    THEN (IF call.event.inside THEN "inside" ELSE "outside")
    ELSE call.last

\* held_down as the other CycleButton sees it
Swap(held) ==
  CASE held = "this" -> "other" [] held = "other" -> "this" [] OTHER -> held

\* this->handle(e) with the mouse event ev
PressEvent(ev) ==
  /\ call' = [button |-> PressedButton, event |-> ev, who |-> "this",
              last |-> LastPress]
  /\ out' = CycleHandle(PressedButton, ev)
  /\ UNCHANGED boxinfo

\* other->handle(e): a second CycleButton, of two items, handles ev; the two
\* share the static held_down
OtherPressEvent(ev) ==
  /\ call' = [button |-> PressedButton, event |-> ev, who |-> "other",
              last |-> LastPress]
  /\ LET res == CycleHandle(Button(<<TRUE, TRUE>>, 0, Swap(PressedButton.held)), ev)
     IN  out' = [res EXCEPT !.button =
                   [PressedButton EXCEPT !.held = Swap(res.button.held)]]
  /\ UNCHANGED boxinfo

----------------------------------------------------------------------------
(* utf.c: utf8decode, utf8bytes, utf8encode *)

\* a & b and a | b of unsigned values
RECURSIVE BitAnd(_, _)
BitAnd(a, b) ==
  IF a = 0 \/ b = 0 THEN 0
  ELSE (IF a % 2 = 1 /\ b % 2 = 1 THEN 1 ELSE 0) + 2 * BitAnd(a \div 2, b \div 2)
RECURSIVE BitOr(_, _)
BitOr(a, b) ==
  IF a = 0 THEN b
  ELSE IF b = 0 THEN a
  ELSE (IF a % 2 = 1 \/ b % 2 = 1 THEN 1 ELSE 0) + 2 * BitOr(a \div 2, b \div 2)
RECURSIVE Pow2(_)
Pow2(n) == IF n = 0 THEN 1 ELSE 2 * Pow2(n - 1)
Shr(a, n) == a \div Pow2(n)
\* a << n; every shift of utf.c stays below 2^21, far inside an unsigned
Shl(a, n) == a * Pow2(n)
\* the value a char holds after buf[i] = v
Byte(v) == v % 256

\* static unsigned short cp1252[32]
cp1252 ==
  << 8364,  129, 8218,  402, 8222, 8230, 8224, 8225,
      710, 8240,  352, 8249,  338,  141,  381,  143,
      144, 8216, 8217, 8220, 8221, 8226, 8211, 8212,
      732, 8482,  353, 8250,  339,  157,  382,  376 >>

\* The bytes of a string are s[1..Len(s)]; p and end are offsets from its
\* start, so p[k] is s[p + k + 1].
At(s, p, k) == s[p + k + 1]

Decoded(ucs, len) == [ucs |-> ucs, len |-> len]

\* utf8decode(p, end, &len)
utf8decode(s, p, end) ==
  LET c    == At(s, p, 0)
      cont(k) == BitAnd(At(s, p, k), 192) = 128
      FAIL == Decoded(c, 1)
      UTF8_3 ==
        IF p + 2 >= end \/ ~cont(2) THEN FAIL
        ELSE Decoded(Shl(BitAnd(At(s, p, 0), 15), 12)
                     + Shl(BitAnd(At(s, p, 1), 63), 6)
                     + BitAnd(At(s, p, 2), 63), 3)
      UTF8_4 ==
        IF p + 3 >= end \/ ~cont(2) \/ ~cont(3) THEN FAIL
        ELSE Decoded(Shl(BitAnd(At(s, p, 0), 7), 18)
                     + Shl(BitAnd(At(s, p, 1), 63), 12)
                     + Shl(BitAnd(At(s, p, 2), 63), 6)
                     + BitAnd(At(s, p, 3), 63), 4)
  IN  IF c < 128 THEN Decoded(c, 1)
      ELSE IF c < 160 THEN Decoded(cp1252[c - 128 + 1], 1)
      ELSE IF c < 194 THEN Decoded(c, 1)
      ELSE IF p + 1 >= end \/ ~cont(1) THEN FAIL
      ELSE IF c < 224
        THEN Decoded(Shl(BitAnd(At(s, p, 0), 31), 6) + BitAnd(At(s, p, 1), 63), 2)
      ELSE IF c = 224 THEN (IF At(s, p, 1) < 160 THEN FAIL ELSE UTF8_3)
      ELSE IF c < 240 THEN UTF8_3
      ELSE IF c = 240 THEN (IF At(s, p, 1) < 144 THEN FAIL ELSE UTF8_4)
      ELSE IF c < 244 THEN UTF8_4
      ELSE IF c = 244 THEN (IF At(s, p, 1) > 143 THEN FAIL ELSE UTF8_4)
      ELSE FAIL

\* utf8bytes(ucs)
utf8bytes(ucs) ==
  IF ucs < 128 THEN 1
  ELSE IF ucs < 2048 THEN 2
  ELSE IF ucs < 65536 THEN 3
  ELSE IF ucs < 1114111 THEN 4
  ELSE 3

\* utf8encode(ucs, buf): the bytes written to buf; their number is returned
utf8encode(ucs) ==
  IF ucs < 128 THEN <<Byte(ucs)>>
  ELSE IF ucs < 2048
    THEN <<Byte(BitOr(192, Shr(ucs, 6))), Byte(BitOr(128, BitAnd(ucs, 63)))>>
  ELSE IF ucs < 65536
    THEN <<Byte(BitOr(224, Shr(ucs, 12))),
           Byte(BitOr(128, BitAnd(Shr(ucs, 6), 63))),
           Byte(BitOr(128, BitAnd(ucs, 63)))>>
  ELSE IF ucs < 1114111
    THEN <<Byte(BitOr(240, Shr(ucs, 18))),
           Byte(BitOr(128, BitAnd(Shr(ucs, 12), 63))),
           Byte(BitOr(128, BitAnd(Shr(ucs, 6), 63))),
           Byte(BitOr(128, BitAnd(ucs, 63)))>>
  ELSE <<239, 191, 189>>

\* The code points given to utf8encode: a run from 0, and the values about
\* which the encoding changes its length or its legality.
MaxRun == 300
UnicodeMax == 1114111
CodeEdges ==
  {127, 128, 159, 160, 255, 256, 2047, 2048, 55295, 55296, 56319, 56320,
   57343, 57344, 65533, 65534, 65535, 65536, 131070, 131071, 262143, 262144,
   1048575, 1048576, UnicodeMax - 1, UnicodeMax, UnicodeMax + 1,
   2097151, 2097152, 2147483647}
CodePoints == (0..MaxRun) \cup CodeEdges

RoundTrip(ucs, bytes, dec) ==
  [ops |-> <<>>, r |-> Rect(0, 0, 0, 0), exit |-> "decoded",
   bytes |-> bytes, n |-> Len(bytes), ucs |-> dec.ucs, len |-> dec.len,
   predicted |-> utf8bytes(ucs)]

\* n = utf8encode(ucs, buf); then utf8decode(buf, buf + n, &len)
EncodeDecode ==
  /\ out.exit = "none" /\ call.fn = "utf8encode"
  /\ LET bytes == utf8encode(call.ucs)
     IN  out' = RoundTrip(call.ucs, bytes, utf8decode(bytes, 0, Len(bytes)))
  /\ UNCHANGED <<boxinfo, call>>

----------------------------------------------------------------------------
(* utf.c: utf8towc, utf8toa, utf8fromwc, utf8froma *)

\* dst is the function from the indexes written to the values last written
NoDst == <<>>
Put(dst, i, v) == [j \in DOMAIN dst \cup {i} |-> IF j = i THEN v ELSE dst[j]]

\* what a conversion returns and leaves in dst
Converted(ret, dst) ==
  [ops |-> <<>>, r |-> Rect(0, 0, 0, 0), exit |-> "returned",
   ret |-> ret, dst |-> dst, wild |-> FALSE]

\* A conversion in progress: the position in the source, count, dst, and
\* how the writing loop was left ("" while in it, "return", "break").
Going(p, count, dst, left) == [p |-> p, count |-> count, dst |-> dst, left |-> left]

\* the two words of a surrogate pair
HighSurrogate(ucs) == BitOr(BitAnd(Shr(ucs - 65536, 10), 1023), 55296)
LowSurrogate(ucs) == BitOr(BitAnd(ucs, 1023), 56320)

\* "we filled dst, measure the rest" of utf8towc
RECURSIVE TowcMeasure(_, _, _, _)
TowcMeasure(s, p, count, win32) ==
  IF p >= Len(s) THEN count
  ELSE IF BitAnd(At(s, p, 0), 128) = 0 THEN TowcMeasure(s, p + 1, count + 1, win32)
  ELSE LET d == utf8decode(s, p, Len(s))
       IN  TowcMeasure(s, p + d.len,
                       (IF win32 /\ d.ucs >= 65536 THEN count + 1 ELSE count) + 1,
                       win32)

\* the writing loop of utf8towc
RECURSIVE TowcWrite(_, _, _, _)
TowcWrite(s, dstlen, win32, g) ==
  IF g.p >= Len(s) THEN Going(g.p, g.count, Put(g.dst, g.count, 0), "return")
  ELSE
    LET ascii == BitAnd(At(s, g.p, 0), 128) = 0
        d     == IF ascii THEN Decoded(At(s, g.p, 0), 1)
                          ELSE utf8decode(s, g.p, Len(s))
        pair  == ~ascii /\ win32 /\ d.ucs >= 65536
    IN  IF pair /\ g.count + 2 >= dstlen
          THEN Going(g.p + d.len, g.count + 2, Put(g.dst, g.count, 0), "break")
        ELSE
          LET dst2 == IF pair
                        THEN Put(Put(g.dst, g.count, HighSurrogate(d.ucs)),
                                 g.count + 1, LowSurrogate(d.ucs))
                        ELSE Put(g.dst, g.count, d.ucs)
              cnt2 == (IF pair THEN g.count + 1 ELSE g.count) + 1
          IN  IF cnt2 = dstlen
                THEN Going(g.p + d.len, cnt2, Put(dst2, cnt2 - 1, 0), "break")
                ELSE TowcWrite(s, dstlen, win32, Going(g.p + d.len, cnt2, dst2, ""))

\* utf8towc(src, srclen, dst, dstlen), built for Windows (wchar_t of 16
\* bits) or not
utf8towc(s, dstlen, win32) ==
  LET g == IF dstlen # 0 THEN TowcWrite(s, dstlen, win32, Going(0, 0, NoDst, ""))
                         ELSE Going(0, 0, NoDst, "break")
  IN  IF g.left = "return" THEN Converted(g.count, g.dst)
      ELSE Converted(TowcMeasure(s, g.p, g.count, win32), g.dst)

\* "we filled dst, measure the rest" of utf8toa
RECURSIVE ToaMeasure(_, _, _)
ToaMeasure(s, p, count) ==
  IF p >= Len(s) THEN count
  ELSE IF BitAnd(At(s, p, 0), 128) = 0 THEN ToaMeasure(s, p + 1, count + 1)
  ELSE ToaMeasure(s, p + utf8decode(s, p, Len(s)).len, count + 1)

\* the writing loop of utf8toa
RECURSIVE ToaWrite(_, _, _)
ToaWrite(s, dstlen, g) ==
  IF g.p >= Len(s) THEN Going(g.p, g.count, Put(g.dst, g.count, 0), "return")
  ELSE
    LET c    == At(s, g.p, 0)
        d    == IF c < 194 THEN Decoded(c, 1) ELSE utf8decode(s, g.p, Len(s))
        v    == IF c < 194 THEN c ELSE IF d.ucs < 256 THEN d.ucs ELSE 63
        dst2 == Put(g.dst, g.count, v)
        cnt2 == g.count + 1
    IN  IF cnt2 >= dstlen
          THEN Going(g.p + d.len, cnt2, Put(dst2, cnt2 - 1, 0), "break")
          ELSE ToaWrite(s, dstlen, Going(g.p + d.len, cnt2, dst2, ""))

\* utf8toa(src, srclen, dst, dstlen)
utf8toa(s, dstlen) ==
  LET g == IF dstlen # 0 THEN ToaWrite(s, dstlen, Going(0, 0, NoDst, ""))
                         ELSE Going(0, 0, NoDst, "break")
  IN  IF g.left = "return" THEN Converted(g.count, g.dst)
      ELSE Converted(ToaMeasure(s, g.p, g.count), g.dst)

\* the UTF-8 bytes the writing loops of utf8fromwc and utf8froma store
TwoBytes(ucs) == <<Byte(BitOr(192, Shr(ucs, 6))), Byte(BitOr(128, BitAnd(ucs, 63)))>>
ThreeBytes(ucs) ==
  <<Byte(BitOr(224, Shr(ucs, 12))), Byte(BitOr(128, BitAnd(Shr(ucs, 6), 63))),
    Byte(BitOr(128, BitAnd(ucs, 63)))>>
FourBytes(ucs) ==
  <<Byte(BitOr(240, Shr(ucs, 18))), Byte(BitOr(128, BitAnd(Shr(ucs, 12), 63))),
    Byte(BitOr(128, BitAnd(Shr(ucs, 6), 63))), Byte(BitOr(128, BitAnd(ucs, 63)))>>

\* dst[count++] = b for each byte b of bs
RECURSIVE PutAll(_, _, _)
PutAll(dst, count, bs) ==
  IF bs = <<>> THEN dst ELSE PutAll(Put(dst, count, Head(bs)), count + 1, Tail(bs))

StoredWhenEqual(g, i, dstlen, bs) ==
  IF g.count + Len(bs) > dstlen
    THEN Going(i, g.count + Len(bs), Put(g.dst, g.count, 0), "break")
    ELSE Going(i, g.count + Len(bs), PutAll(g.dst, g.count, bs), "")

\* if (count+n >= dstlen) {dst[count] = 0; count += n; break;} and the n
\* stores after it
Stored(g, i, dstlen, bs) ==
  IF g.count + Len(bs) >= dstlen
    THEN Going(i, g.count + Len(bs), Put(g.dst, g.count, 0), "break")
    ELSE Going(i, g.count + Len(bs), PutAll(g.dst, g.count, bs), "")

IsHigh(w) == w >= 55296 /\ w <= 56319
IsLow(w) == w >= 56320 /\ w <= 57343

\* one turn of "we filled dst, measure the rest" of utf8fromwc; on Windows
\* the pair test is i < srclen-1 && src[i+1] ..., made after i++
FromwcMeasureStep(src, i, count, win32) ==
  LET ucs == src[i + 1]
      i2  == i + 1
  IN  IF ucs < 128 THEN [i |-> i2, count |-> count + 1]
      ELSE IF ucs < 2048 THEN [i |-> i2, count |-> count + 2]
      ELSE IF win32
        THEN IF IsHigh(ucs) /\ i2 < Len(src) - 1 /\ IsLow(src[i2 + 2])
               THEN [i |-> i2 + 1, count |-> count + 4]
               ELSE [i |-> i2, count |-> count + 3]
      ELSE IF ucs >= 65536 /\ ucs <= 1114111 THEN [i |-> i2, count |-> count + 4]
      ELSE [i |-> i2, count |-> count + 3]

RECURSIVE FromwcMeasure(_, _, _, _)
FromwcMeasure(src, i, count, win32) ==
  IF i >= Len(src) THEN count
  ELSE LET n == FromwcMeasureStep(src, i, count, win32)
       IN  FromwcMeasure(src, n.i, n.count, win32)

\* the writing loop of utf8fromwc; g.p is i
RECURSIVE FromwcWrite(_, _, _, _)
FromwcWrite(src, dstlen, win32, g) ==
  IF g.p >= Len(src) THEN Going(g.p, g.count, Put(g.dst, g.count, 0), "return")
  ELSE
    LET ucs == src[g.p + 1]
        i2  == g.p + 1
        n   ==
          IF ucs < 128
            THEN IF g.count + 1 >= dstlen
                   THEN Going(i2, g.count + 1, Put(Put(g.dst, g.count, ucs), g.count, 0),
                              "break")
                   ELSE Going(i2, g.count + 1, Put(g.dst, g.count, ucs), "")
          ELSE IF ucs < 2048 THEN Stored(g, i2, dstlen, TwoBytes(ucs))
          ELSE IF win32
            THEN IF IsHigh(ucs) /\ i2 < Len(src) /\ IsLow(src[i2 + 1])
                   THEN Stored(g, i2 + 1, dstlen,
                               FourBytes(65536 + Shl(BitAnd(ucs, 1023), 10)
                                         + BitAnd(src[i2 + 1], 1023)))
                   ELSE Stored(g, i2, dstlen, ThreeBytes(ucs))
          ELSE IF ucs >= 65536
            THEN IF ucs > 1114111 THEN Stored(g, i2, dstlen, ThreeBytes(65533))
                                  ELSE Stored(g, i2, dstlen, FourBytes(ucs))
          ELSE Stored(g, i2, dstlen, ThreeBytes(ucs))
    IN  IF n.left = "break" THEN n ELSE FromwcWrite(src, dstlen, win32, n)

\* utf8fromwc(dst, dstlen, src, srclen), built for Windows or not
utf8fromwc(src, dstlen, win32) ==
  LET g == IF dstlen # 0 THEN FromwcWrite(src, dstlen, win32, Going(0, 0, NoDst, ""))
                         ELSE Going(0, 0, NoDst, "break")
  IN  IF g.left = "return" THEN Converted(g.count, g.dst)
      ELSE Converted(FromwcMeasure(src, g.p, g.count, win32), g.dst)

RECURSIVE FromaMeasure(_, _, _)
FromaMeasure(s, p, count) ==
  IF p >= Len(s) THEN count
  ELSE FromaMeasure(s, p + 1, IF At(s, p, 0) < 128 THEN count + 1 ELSE count + 2)

\* the writing loop of utf8froma
RECURSIVE FromaWrite(_, _, _)
FromaWrite(s, dstlen, g) ==
  IF g.p >= Len(s) THEN Going(g.p, g.count, Put(g.dst, g.count, 0), "return")
  ELSE
    LET ucs == At(s, g.p, 0)
        n   == IF ucs < 128
                 THEN IF g.count + 1 >= dstlen
                        THEN Going(g.p + 1, g.count + 1,
                                   Put(Put(g.dst, g.count, ucs), g.count, 0), "break")
                        ELSE Going(g.p + 1, g.count + 1, Put(g.dst, g.count, ucs), "")
               ELSE Stored(g, g.p + 1, dstlen, TwoBytes(ucs))
    IN  IF n.left = "break" THEN n ELSE FromaWrite(s, dstlen, n)

\* utf8froma(dst, dstlen, src, srclen)
utf8froma(s, dstlen) ==
  LET g == IF dstlen # 0 THEN FromaWrite(s, dstlen, Going(0, 0, NoDst, ""))
                         ELSE Going(0, 0, NoDst, "break")
  IN  IF g.left = "return" THEN Converted(g.count, g.dst)
      ELSE Converted(FromaMeasure(s, g.p, g.count), g.dst)

----------------------------------------------------------------------------
(* utf.c: utf8tomb, utf8frommb when utf8locale() is true *)

MaxDst == 9
\* dst[0 .. MemTop] is the memory followed; a write beyond it sets `wild`
MemTop == MaxDst + 1

\* memcpy(dst, src, n): a byte read past the end of src is garbage
Memcpy(src, n, garbage) ==
  [i \in {j \in 0..MemTop : j < n} |->
     IF i < Len(src) THEN src[i + 1] ELSE garbage]

\* "identity transform:" of utf8tomb and of utf8frommb.  dstlen is unsigned:
\* dstlen-1 wraps to 0xffffffff when dstlen is 0, which is beyond the memory
\* followed and stands here as MemTop + 2
IdentityTransform(src, dstlen, garbage) ==
  LET srclen == Len(src)
  IN  IF srclen <= dstlen
        THEN Converted(srclen, Put(Memcpy(src, srclen, garbage), srclen, 0))
      ELSE LET n == IF dstlen >= 1 THEN dstlen - 1 ELSE MemTop + 2
           IN  [Converted(srclen, Put(Memcpy(src, n, garbage), dstlen, 0))
                  EXCEPT !.wild = n > MemTop + 1]

\* utf8tomb(src, srclen, dst, dstlen) with utf8locale() true
utf8tomb(src, dstlen, garbage) == IdentityTransform(src, dstlen, garbage)

\* utf8frommb(dst, dstlen, src, srclen) with utf8locale() true
utf8frommb(src, dstlen, garbage) == IdentityTransform(src, dstlen, garbage)

----------------------------------------------------------------------------
(* The calls of the utf.c functions. *)

RECURSIVE Flat(_)
Flat(ss) == IF ss = <<>> THEN <<>> ELSE Head(ss) \o Flat(Tail(ss))

\* UTF-8 sources: up to MaxTokens of "A", e-acute, the euro sign, an
\* emoticon (4 bytes), a stray continuation byte, a lead byte alone, 0xff
MaxTokens == 2
Utf8Tokens ==
  {<<65>>, <<195, 169>>, <<226, 130, 172>>, <<240, 159, 152, 128>>,
   <<169>>, <<195>>, <<255>>}
Utf8Sources == {Flat(ts) : ts \in UNION {[1..n -> Utf8Tokens] : n \in 0..MaxTokens}}

\* wide sources: up to MaxWords words; a wchar_t has 16 bits on Windows
MaxWords == 3
WideWords == {65, 233, 8364, 55296, 56320, 128512, 1114111, 1114112}
WideSources(win32) ==
  UNION {[1..n -> {w \in WideWords : ~win32 \/ w < 65536}] : n \in 0..MaxWords}

\* ISO-8859-1 sources
MaxBytes == 3
LatinSources == UNION {[1..n -> {65, 127, 128, 233, 255}] : n \in 0..MaxBytes}
\* sources of the identity transform
PlainSources == UNION {[1..n -> {65, 195, 169}] : n \in 0..MaxBytes}

Dstlens == 0..MaxDst

UtfCall(fn, ucs, src, dstlen, win32, garbage) ==
  [fn |-> fn, ucs |-> ucs, src |-> src, dstlen |-> dstlen, win32 |-> win32,
   garbage |-> garbage]

UtfCalls ==
  {UtfCall("utf8encode", u, <<>>, 0, FALSE, 0) : u \in CodePoints}
  \cup {UtfCall("utf8towc", 0, s, n, w, 0) :
          s \in Utf8Sources, n \in Dstlens, w \in BOOLEAN}
  \cup {UtfCall("utf8toa", 0, s, n, FALSE, 0) : s \in Utf8Sources, n \in Dstlens}
  \cup UNION {{UtfCall("utf8fromwc", 0, s, n, w, 0) :
                 s \in WideSources(w), n \in Dstlens} : w \in BOOLEAN}
  \cup {UtfCall("utf8froma", 0, s, n, FALSE, 0) : s \in LatinSources, n \in Dstlens}
  \cup {UtfCall(f, 0, s, n, FALSE, g) :
          f \in {"utf8tomb", "utf8frommb"}, s \in PlainSources, n \in Dstlens,
          g \in {0, 255}}

UtfInit == BoxesConstructed /\ call \in UtfCalls /\ out = NoOut

\* one call of a conversion
Convert ==
  /\ out.exit = "none"
  /\ call.fn \in {"utf8towc", "utf8toa", "utf8fromwc", "utf8froma"}
  /\ out' = CASE call.fn = "utf8towc" -> utf8towc(call.src, call.dstlen, call.win32)
              [] call.fn = "utf8toa" -> utf8toa(call.src, call.dstlen)
              [] call.fn = "utf8fromwc" -> utf8fromwc(call.src, call.dstlen, call.win32)
              [] call.fn = "utf8froma" -> utf8froma(call.src, call.dstlen)
  /\ UNCHANGED <<boxinfo, call>>

\* one call of utf8tomb or utf8frommb in a UTF-8 locale
ConvertLocale ==
  /\ out.exit = "none" /\ call.fn \in {"utf8tomb", "utf8frommb"}
  /\ out' = IF call.fn = "utf8tomb"
              THEN utf8tomb(call.src, call.dstlen, call.garbage)
              ELSE utf8frommb(call.src, call.dstlen, call.garbage)
  /\ UNCHANGED <<boxinfo, call>>

----------------------------------------------------------------------------
(* fltk::key_name(int shortcut) *)

\* static char buf[20];
KeyBufSize == 20

\* The key symbols are numbers of fltk/events.h.  A key is its place in the
\* numeric order: the keys of the table have the even places 2, 4, ..., in
\* the order of the table, every other key has an odd place.
TableNames ==
  <<"Backspace", "Tab", "Clear", "Return", "Pause", "ScrollLock", "Escape",
    "Home", "Left", "Up", "Right", "Down", "PageUp", "PageDown", "End",
    "Print", "Insert", "Menu", "NumLock", "KeypadEnter", "LeftShift",
    "RightShift", "LeftCtrl", "RightCtrl", "CapsLock", "LeftMeta",
    "RightMeta", "LeftAlt", "RightAlt", "Delete">>

\* static Keyname table[], with USE_X11 and without
KeyTable(x11) ==
  LET all == [i \in 1..Len(TableNames) |-> [key |-> 2 * i, name |-> TableNames[i]]]
  IN  IF x11 THEN SelectSeq(all, LAMBDA e : e.name \in {"PageUp", "PageDown"})
      ELSE all

\* the binary search of the table between a and b; "" is q = 0
RECURSIVE TableSearch(_, _, _, _)
TableSearch(table, key, a, b) ==
  IF a < b
    THEN LET c == (a + b) \div 2
         IN  IF table[c + 1].key = key THEN table[c + 1].name
             ELSE IF table[c + 1].key < key THEN TableSearch(table, key, c + 1, b)
             ELSE TableSearch(table, key, a, c)
    ELSE ""

\* what key_name leaves: the string returned, whether it is in buf, and the
\* number of bytes of buf written, terminators included
Named(s, written, inbuf) ==
  [ops |-> <<>>, r |-> Rect(0, 0, 0, 0), exit |-> "named",
   s |-> s, written |-> written, inbuf |-> inbuf]

\* the strcpy of the prefixes, in the order of lines 92-95
KeyPrefix(sc) ==
  (IF sc.meta THEN "Meta+" ELSE "") \o (IF sc.alt THEN "Alt+" ELSE "")
    \o (IF sc.shift THEN "Shift+" ELSE "") \o (IF sc.ctrl THEN "Ctrl+" ELSE "")

\* A shortcut is its four flags and its key, shortcut & 0xFFFF.  The key has
\* its place, its class (0, a key of the table, F0Key..LastFunctionKey with
\* n = key-F0Key, Keypad..KeypadLast, a character 33..255, or another
\* symbol), its character uchar(key) ("" for the byte 0) and the name
\* XKeysymToString gives it ("" for a null pointer).
KeyName(x11, sc) ==
  LET key  == sc.key
      pre  == KeyPrefix(sc)
      p    == Len(pre)
      some == IF p > 0 THEN p + 1 ELSE 0
      q0   == TableSearch(KeyTable(x11), key.place, 0, Len(KeyTable(x11)))
      q    == IF q0 = "" /\ x11 /\ key.class # "char" THEN key.xname ELSE q0
      fkey == "F" \o (IF key.n > 9 THEN DigitChars[(key.n \div 10) + 1] ELSE "")
                \o DigitChars[(key.n % 10) + 1]
  IN  IF sc = [meta |-> FALSE, alt |-> FALSE, shift |-> FALSE, ctrl |-> FALSE,
               key |-> key] /\ key.class = "zero"
        THEN Named("", 1, TRUE)
      ELSE IF q0 = "" /\ ~x11 /\ key.class = "F"
        THEN Named(pre \o fkey, p + Len(fkey) + 1, TRUE)
      ELSE IF q0 = "" /\ ~x11 /\ key.class = "keypad"
        THEN Named(pre \o "Keypad" \o key.ch, p + 6 + 1 + 1, TRUE)
      ELSE IF q # ""
        THEN (IF p = 0 THEN Named(q, 0, FALSE)
              ELSE Named(pre \o q, p + Len(q) + 1, TRUE))
      ELSE Named(pre \o key.ch, p + 1 + 1, TRUE)

\* the last function key tried, key-F0Key
MaxFKey == 35

Key(place, class, n, ch, xname) ==
  [place |-> place, class |-> class, n |-> n, ch |-> ch, xname |-> xname]

\* the keys tried, and the names X may have for them
Keys(x11) ==
  LET xnames == IF x11 THEN {"", "Tab", "ISO_Level3_Shift"} ELSE {""}
  IN  {Key(0, "zero", 0, "", "")}
        \cup {Key(2 * i, "table", 0, "", x) :
                i \in 1..Len(TableNames), x \in xnames}
        \cup {Key(57, "F", n, "", IF x11 THEN "F" \o UtoA(n) ELSE "") :
                n \in {0, 1, 9, 10, 12, MaxFKey}}
        \cup {Key(59, "keypad", 0, c, x) : c \in {"5", "+"}, x \in xnames}
        \cup {Key(1, "char", 0, c, "") : c \in {"a", "N", "+"}}
        \cup {Key(pl, "other", 0, "", x) : pl \in {1, 29, 63}, x \in xnames}

KeyCalls ==
  {[x11 |-> x,
    shortcut |-> [meta |-> m, alt |-> a, shift |-> s, ctrl |-> c, key |-> k]] :
     x \in BOOLEAN, m \in BOOLEAN, a \in BOOLEAN, s \in BOOLEAN, c \in BOOLEAN,
     k \in Keys(TRUE) \cup Keys(FALSE)}

KeyInit == BoxesConstructed /\ call \in KeyCalls /\ out = NoOut

\* one call of key_name.  Writing past buf is undefined: the string may be
\* read back whole, or cut where buf ends.
CallKeyName ==
  /\ out.exit = "none"
  /\ LET res == KeyName(call.x11, call.shortcut)
     IN  out' \in {res} \cup
                  (IF res.written > KeyBufSize
                     THEN {Named(SubSeq(res.s, 1, KeyBufSize), res.written, TRUE)}
                     ELSE {})
  /\ UNCHANGED <<boxinfo, call>>

----------------------------------------------------------------------------
(* The specifications. *)

SBNext(env) ==
  \/ \E t \in env.texts, p \in Positions : Set(t, p)
  \/ \E b \in env.cboxes, p \in Positions : ChildBox(b, p)
  \/ Layout
  \/ Destroy
  \/ \E sz \in env.sizes, r \in env.strips, i \in 1..NSib, s \in env.sibs :
       ParentLayout(sz, r, i, s)

Init == BoxIdle /\ SBInit(SlotEnv)
Next == SBNext(SlotEnv)
Spec == Init /\ [][Next]_vars

InitLayout == BoxIdle /\ SBInit(LayoutEnv)
NextLayout == SBNext(LayoutEnv)
SpecLayout == InitLayout /\ [][NextLayout]_vars

InitSize == BoxIdle /\ SBInit(SizeEnv)
NextSize == SBNext(SizeEnv)
SpecSize == InitSize /\ [][NextSize]_vars

InitFormat == BoxIdle /\ SBInit(FormatEnv)

NextFormat ==
  \/ \E p \in Positions, c \in FormatCalls : SetFormatted(p, c.fmt, c.args)
  \/ \E t \in FormatEnv.texts, p \in Positions : Set(t, p)
  \/ Destroy

SpecFormat == InitFormat /\ [][NextFormat]_vars

InitCycle == CycleInit /\ SBIdle
NextCycle == HandleEvent /\ UNCHANGED sbVars
SpecCycle == InitCycle /\ [][NextCycle]_vars

InitPress == PressInit /\ SBIdle

NextPress ==
  \/ \E ev \in PressEvents : PressEvent(ev) /\ UNCHANGED sbVars
  \/ \E ev \in PressEvents : OtherPressEvent(ev) /\ UNCHANGED sbVars

SpecPress == InitPress /\ [][NextPress]_vars

InitLoop == LoopInit /\ SBIdle
NextLoop == RunLoop /\ UNCHANGED sbVars
SpecLoop == InitLoop /\ [][NextLoop]_vars

InitKey == KeyInit /\ SBIdle
NextKey == CallKeyName /\ UNCHANGED sbVars
SpecKey == InitKey /\ [][NextKey]_vars

InitUtf == UtfInit /\ SBIdle

NextUtf ==
  \/ EncodeDecode /\ UNCHANGED sbVars
  \/ Convert /\ UNCHANGED sbVars
  \/ ConvertLocale /\ UNCHANGED sbVars

SpecUtf == InitUtf /\ [][NextUtf]_vars

InitBox == BoxInit /\ SBIdle

NextBox ==
  \/ DrawFrameBox /\ UNCHANGED sbVars
  \/ DrawFlatBox /\ UNCHANGED sbVars

SpecBox == InitBox /\ [][NextBox]_vars

InitVariants == VariantInit /\ SBIdle

NextVariants ==
  \/ DrawFrameBox /\ UNCHANGED sbVars
  \/ DrawFlatBox /\ UNCHANGED sbVars
  \/ DrawNoBox /\ UNCHANGED sbVars
  \/ DrawBorderFrame /\ UNCHANGED sbVars
  \/ DrawDottedFrame /\ UNCHANGED sbVars
  \/ DrawHighlightBox /\ UNCHANGED sbVars

SpecVariants == InitVariants /\ [][NextVariants]_vars

----------------------------------------------------------------------------
(* Properties of the boxes, checked under SpecBox. *)

\* Box::inset: the rectangle r less the border bi
Inset(r, bi) == Rect(r.x + bi.dx, r.y + bi.dy, r.w - bi.dw, r.h - bi.dh)

Min(a, b) == IF a <= b THEN a ELSE b

\* the pattern a FrameBox draw call interprets, and its edge characters
DrawnPattern(c) ==
  EffectivePattern(SelectPattern(c.box, c.flags), c.flags, c.inactiveBoxes)
EdgeChars(s) == IF s # <<>> /\ s[1] = Ord("2") THEN Tail(s) ELSE s

FrameCallDone == call.box \in FrameBoxes /\ out.exit # "none"
Fills(ops) == {i \in 1..Len(ops) : ops[i].op = "fillrect"}
\* ops[1..2n] are n edges: a setcolor and a drawline each
IsEdges(ops, n) ==
  \A i \in 1..n : ops[2 * i - 1].op = "setcolor" /\ ops[2 * i].op = "drawline"

\* C5: for every built-in FrameBox and every flag set, when draw() does not
\* stop early the interior it leaves (and fills, unless INVISIBLE) is the
\* rectangle inset by boxinfo(): dx from the left, dy from the top, dw less
\* wide, dh less high.
C5_DrawMatchesBoxinfo ==
  (FrameCallDone /\ call.box \in BuiltinFrameBoxes /\ out.exit = "end") =>
    /\ out.r = Inset(call.R, boxinfo[call.box])
    /\ INVISIBLE \notin call.flags =>
         out.ops[Len(out.ops)] = FillRect(Inset(call.R, boxinfo[call.box]))

\* C6: a pattern of 2k characters without a leading '2', drawn with no flag
\* on a rectangle with 2k <= min(width, height), emits exactly 2k edge lines
\* (k pairs) and then fills the interior left exactly once.
C6_KPairsThenFill ==
  LET P == Data(call.box)
      k == Len(P) \div 2
  IN  (FrameCallDone /\ call.flags = {} /\ P[1] # Ord("2") /\ Len(P) = 2 * k
       /\ k >= 1 /\ 2 * k <= Min(call.R.w, call.R.h)) =>
        /\ Len(out.ops) = 4 * k + 2
        /\ IsEdges(out.ops, 2 * k)
        /\ out.ops[4 * k + 1] = SetColor(BoxBg(call.flags))
        /\ out.ops[4 * k + 2] = FillRect(out.r)
        /\ Fills(out.ops) = {4 * k + 2}

C6_Witness ==
  /\ FrameCallDone /\ call.box = "down" /\ call.flags = {}
  /\ call.R.w = 8 /\ call.R.h = 9 /\ Len(out.ops) = 18

C8_ValueUsesDown ==
  FrameCallDone /\ ~Empty(call.R) =>
    LET used == IF VALUE \in call.flags \/ FrameBoxDownArg[call.box] = ""
                  THEN Data(Down(call.box)) ELSE Data(call.box)
        edges == EdgeChars(EffectivePattern(used, call.flags, call.inactiveBoxes))
        n == IF out.exit = "end" /\ INVISIBLE \notin call.flags
               THEN (Len(out.ops) - 2) \div 2 ELSE Len(out.ops) \div 2
    IN  /\ out = PatternDraw(used, call.R, call.flags, call.inactiveBoxes)
        /\ FrameBoxDownArg[call.box] = "" => used = Data(call.box)
        /\ n <= Len(edges) /\ (out.exit = "end" => n = Len(edges))
        /\ \A i \in 1..n : out.ops[2 * i - 1] = SetColor(Gray(edges[i]))
        /\ out.ops[2] = EdgeLine(IF used[1] = Ord("2") THEN "top" ELSE "bottom", call.R)

C8_Witness ==
  /\ FrameCallDone /\ call.box = "engraved" /\ call.flags = {VALUE}
  /\ out.exit = "end" /\ out.ops[1] = SetColor(Gray(Ord("W")))
  /\ out.ops[2] = EdgeLine("bottom", call.R)

\* C9: boxinfo() of a FrameBox constructed with the pattern P has
\* dw = dh = len(P)/2 and dx = dy = dw/2 (truncating), before and after
\* every draw call.
C9_BoxinfoFromLength ==
  \A b \in FrameBoxes :
    /\ boxinfo[b].dw = Len(Data(b)) \div 2
    /\ boxinfo[b].dh = boxinfo[b].dw
    /\ boxinfo[b].dx = boxinfo[b].dw \div 2
    /\ boxinfo[b].dy = boxinfo[b].dx

C9_Witness ==
  /\ FrameCallDone /\ call.box = "engraved" /\ out.exit = "end"
  /\ Len(Data("engraved")) = 9
  /\ boxinfo["engraved"].dw = 4 /\ boxinfo["engraved"].dx = 2
  /\ boxinfo["thin_up"].dw = 2 /\ boxinfo["thin_up"].dx = 1

\* C10: FlatBox draw on a rectangle with width > 0 and height > 0 and
\* without INVISIBLE emits one setcolor of the style's background for the
\* flags and one fillrect of exactly the rectangle; with INVISIBLE or an
\* empty rectangle it emits nothing.
C10_FlatFillsExactly ==
  (call.box = "flat" /\ out.exit # "none") =>
    IF call.R.w > 0 /\ call.R.h > 0 /\ INVISIBLE \notin call.flags
      THEN out.ops = <<SetColor(BoxBg(call.flags)), FillRect(call.R)>>
      ELSE out.ops = <<>>

C10_Witness ==
  /\ call.box = "flat" /\ out.exit = "end" /\ call.flags = {INACTIVE, VALUE}
  /\ call.R = Rect(3, 2, 5, 1) /\ Len(out.ops) = 2

\* the number of edges a finished draw call emitted
EdgesDrawn ==
  IF out.exit = "end" /\ INVISIBLE \notin call.flags
    THEN (Len(out.ops) - 2) \div 2 ELSE Len(out.ops) \div 2

\* the sides in their cyclic order, and the side of edge number i when the
\* first edge is side number `first`
Sides == <<"bottom", "right", "top", "left">>
SideNo(first, i) == Sides[((first + i - 2) % 4) + 1]

\* r with one pixel taken off the given side
OneOff(side, r) ==
  CASE side = "bottom" -> Rect(r.x, r.y, r.w, r.h - 1)
    [] side = "right"  -> Rect(r.x, r.y, r.w - 1, r.h)
    [] side = "top"    -> Rect(r.x, r.y + 1, r.w, r.h - 1)
    [] side = "left"   -> Rect(r.x + 1, r.y, r.w - 1, r.h)

\* the line along the whole of one side of r
FullSide(side, r) ==
  CASE side = "bottom" ->
         DrawLine(r.x, r.y + r.h - 1, r.x + r.w - 1, r.y + r.h - 1)
    [] side = "right"  ->
         DrawLine(r.x + r.w - 1, r.y, r.x + r.w - 1, r.y + r.h - 1)
    [] side = "top"    -> DrawLine(r.x, r.y, r.x + r.w - 1, r.y)
    [] side = "left"   -> DrawLine(r.x, r.y, r.x, r.y + r.h - 1)

\* the working rectangle before edge number i
RECURSIVE Working(_, _, _)
Working(R, first, i) ==
  IF i = 1 THEN R ELSE OneOff(SideNo(first, i - 1), Working(R, first, i - 1))

\* C21: FrameBox draw takes one pattern character per edge, in the cyclic
\* order bottom, right, top, left, or top, left, bottom, right when the
\* pattern starts with '2' (which colours no edge); each edge is the line
\* along the whole of its side of the working rectangle, which loses one
\* pixel on that side right after the edge.
C21_EdgesSpiralInward ==
  FrameCallDone /\ ~Empty(call.R) =>
    LET P     == DrawnPattern(call)
        first == IF P[1] = Ord("2") THEN 3 ELSE 1
        edges == EdgeChars(P)
        n     == EdgesDrawn
    IN  /\ n >= 1 /\ n <= Len(edges)
        /\ \A i \in 1..n :
             /\ out.ops[2 * i - 1] = SetColor(Gray(edges[i]))
             /\ out.ops[2 * i] = FullSide(SideNo(first, i), Working(call.R, first, i))
        /\ out.r = Working(call.R, first, n + 1)
        /\ \A i \in 1..(2 * n) : out.ops[i].col # Gray(Ord("2"))

C21_Witness ==
  /\ FrameCallDone /\ call.box = "engraved" /\ call.flags = {}
  /\ call.R = Rect(3, 2, 9, 9) /\ out.exit = "end" /\ EdgesDrawn = 8
  /\ out.ops[2] = DrawLine(3, 2, 11, 2)
  /\ out.ops[4] = DrawLine(3, 3, 3, 10)
  /\ out.ops[6] = DrawLine(4, 10, 11, 10)

\* the edges after which the working rectangle has no width or no height
Collapsing(R, first, m) == {i \in 1..m : Empty(Working(R, first, i + 1))}
Least(S) == CHOOSE i \in S : \A j \in S : i <= j

\* C22: FrameBox draw fills the interior exactly when the pattern was
\* exhausted without the working rectangle's width or height becoming <= 0
\* and INVISIBLE is not set; it returns right after the first edge that
\* leaves no width or no height, with no fill; INVISIBLE changes no edge and
\* only takes the fill away; what is filled is the working rectangle left
\* after the last edge.
C22_FillsWhatIsLeft ==
  FrameCallDone /\ ~Empty(call.R) =>
    LET P     == DrawnPattern(call)
        first == IF P[1] = Ord("2") THEN 3 ELSE 1
        m     == Len(EdgeChars(P))
        gone  == Collapsing(call.R, first, m)
        n     == IF gone = {} THEN m ELSE Least(gone)
        seen  == FrameBoxDraw(call.box, call.R, call.flags \ {INVISIBLE},
                              call.inactiveBoxes)
    IN  /\ Fills(out.ops) # {} <=> gone = {} /\ INVISIBLE \notin call.flags
        /\ out.exit = "early" <=> gone # {}
        /\ IsEdges(out.ops, n)
        /\ IF Fills(out.ops) = {} THEN Len(out.ops) = 2 * n
           ELSE /\ Len(out.ops) = 2 * n + 2
                /\ out.ops[2 * n + 1] = SetColor(BoxBg(call.flags))
                /\ out.ops[2 * n + 2] = FillRect(Working(call.R, first, m + 1))
        /\ INVISIBLE \in call.flags =>
             /\ SubSeq(seen.ops, 1, 2 * n) = out.ops
             /\ Len(seen.ops) = IF gone = {} THEN 2 * n + 2 ELSE 2 * n

\* a draw with INVISIBLE that went through the whole pattern
C22_Witness ==
  /\ FrameCallDone /\ call.box = "up" /\ call.flags = {INVISIBLE}
  /\ call.R = Rect(0, 0, 5, 6) /\ out.exit = "end"
  /\ Len(out.ops) = 16 /\ Fills(out.ops) = {}

\* a draw that stopped at the edge that left no height
StoppedEarly ==
  /\ FrameCallDone /\ call.box = "up" /\ call.flags = {}
  /\ call.R = Rect(0, 0, 5, 2) /\ out.exit = "early" /\ Len(out.ops) = 6

\* 'M' + (c - 'A')/3 for a shade letter c
Dimmed(c) == 77 + (c - 65) \div 3

\* C23: with INACTIVE set and dimming asked for by the style, the pattern
\* interpreted is the one chosen (after the VALUE substitution) with every
\* shade letter c replaced by 'M' + (c - 'A')/3, a leading '2' kept and the
\* length unchanged; otherwise it is the pattern chosen, unmodified.
C23_InactiveRemap ==
  FrameCallDone /\ ~Empty(call.R) =>
    LET chosen == IF VALUE \in call.flags THEN Data(Down(call.box))
                                          ELSE Data(call.box)
        dims   == INACTIVE \in call.flags /\ call.inactiveBoxes
        lead   == chosen[1] = 50
        m      == IF lead THEN Len(chosen) - 1 ELSE Len(chosen)
        letter(i) == IF lead THEN chosen[i + 1] ELSE chosen[i]
        n      == EdgesDrawn
    IN  /\ n <= m /\ (out.exit = "end" => n = m)
        /\ \A i \in 1..n :
             out.ops[2 * i - 1] =
               SetColor(Gray(IF dims THEN Dimmed(letter(i)) ELSE letter(i)))
        /\ out.ops[2] = FullSide(IF lead THEN "top" ELSE "bottom", call.R)

\* "WWHHPPAA" drawn dimmed has the shades of "TTOORRMM"
C23_Witness ==
  /\ FrameCallDone /\ call.box = "down" /\ call.flags = {INACTIVE}
  /\ call.inactiveBoxes /\ out.exit = "end"
  /\ [i \in 1..8 |-> out.ops[2 * i - 1].col.shade + 65]
       = Str(<<"T", "T", "O", "O", "R", "R", "M", "M">>)

\* a pattern with a leading '2' drawn dimmed still starts with the top edge
DimmedKeepsLead ==
  /\ FrameCallDone /\ call.box = "embossed" /\ call.flags = {INACTIVE}
  /\ call.inactiveBoxes /\ out.exit = "end" /\ EdgesDrawn = 8
  /\ out.ops[1] = SetColor(Gray(Ord("T")))

\* The pixels a drawline (horizontal or vertical, both ends drawn) and a
\* fillrect paint; a setcolor paints none.
LinePixels(op) == {<<x, y>> : x \in op.a..op.c, y \in op.b..op.d}
RectPixels(r) == {<<x, y>> : x \in r.x..(Rr(r) - 1), y \in r.y..(Rb(r) - 1)}
OpPixels(op) ==
  CASE op.op = "drawline" -> LinePixels(op)
    [] op.op = "fillrect" -> RectPixels(Rect(op.a, op.b, op.c, op.d))
    [] OTHER -> {}
Painted(ops) == UNION {OpPixels(ops[i]) : i \in 1..Len(ops)}

\* C29: for every non-empty rectangle R, every FrameBox pattern (its edge
\* characters are an even number, with or without a leading '2') and every
\* flag set without INVISIBLE, the edge lines and the interior fill of draw
\* paint every pixel of R and none outside R, also when draw stops early.
C29_FrameBoxOpaque ==
  FrameCallDone /\ ~Empty(call.R) /\ INVISIBLE \notin call.flags =>
    /\ Len(EdgeChars(DrawnPattern(call))) % 2 = 0
    /\ out.exit \in {"early", "end"}
    /\ Painted(out.ops) = RectPixels(call.R)

\* R narrower than the border: the draw stops at the left edge, before the
\* fill, and has painted the six pixels of R
C29_Witness ==
  /\ FrameCallDone /\ call.box = "up" /\ call.flags = {VALUE}
  /\ call.R = Rect(3, 2, 2, 3) /\ out.exit = "early"
  /\ Fills(out.ops) = {} /\ Cardinality(Painted(out.ops)) = 6

\* a draw that reaches the fill paints R too
OpaqueWithFill ==
  /\ FrameCallDone /\ call.box = "thin_up" /\ call.flags = {INACTIVE}
  /\ call.R = Rect(0, 0, 4, 3) /\ out.exit = "end"
  /\ Fills(out.ops) # {} /\ Cardinality(Painted(out.ops)) = 12

----------------------------------------------------------------------------
(* Properties of the strip's geometry, checked under SpecLayout. *)

\* C1: after resize_from_parent() on a strip with a parent, the strip's x
\* is the parent's content left, its width the parent's content width, its
\* height the one it had, and its bottom edge the parent's content bottom,
\* whatever the parent's size and box.
C1_ResizeAnchorsStrip ==
  [][\A sz \in LayoutEnv.sizes, r \in LayoutEnv.strips,
        i \in 1..NSib, s \in LayoutEnv.sibs :
       ParentLayout(sz, r, i, s) =>
         LET c == ContentRect(pbox, sz)
         IN  /\ strip'.x = c.x
             /\ strip'.w = c.w
             /\ strip'.h = r.h
             /\ Rb(strip') = Rb(c)]_vars

\* C2: layout() runs resize_from_parent() after the generic pass, so at the
\* end of every layout pass the strip is anchored to the bottom of the
\* parent's content area, whatever the pass gave it before, and no sibling
\* of non-zero height reaches below the strip's top edge.
C2_LayoutCorrectsLast ==
  [][\A sz \in LayoutEnv.sizes, r \in LayoutEnv.strips,
        i \in 1..NSib, s \in LayoutEnv.sibs :
       ParentLayout(sz, r, i, s) =>
         /\ Rb(strip') = Rb(ContentRect(pbox, sz))
         /\ \A j \in 1..NSib : sib'[j].h = 0 \/ Rb(sib'[j]) <= strip'.y]_vars

\* What does hold of a layout pass: the strip ends where
\* resize_from_parent() puts it, its bottom edge at the parent's height less
\* dh, whatever the generic pass gave it, and no sibling of non-zero height
\* reaches below its top edge.
LayoutPlacesStripLast ==
  [][\A sz \in LayoutEnv.sizes, r \in LayoutEnv.strips,
        i \in 1..NSib, s \in LayoutEnv.sibs :
       ParentLayout(sz, r, i, s) =>
         /\ strip' = ResizedStrip(r, pbox, sz)
         /\ Rb(strip') = sz[2] - BoxDh(pbox)
         /\ \A j \in 1..NSib : sib'[j].h = 0 \/ Rb(sib'[j]) <= strip'.y]_vars

\* C24: an allocated slot's x is, by its position: LEFT, the strip's left
\* inset (the dx of its box); CENTER, (strip right - slot width)/2 with the
\* strip's whole right edge; RIGHT, strip right - slot width - the dw of the
\* strip's box - the border width; the slot width is the padded one.  A slot
\* without a box gets none.
C24_SlotXByPosition ==
  sbAlive =>
    /\ \A p \in Positions :
         tf[p] # 0 =>
           LET b == heap[tf[p]]
           IN  /\ p = SBAR_LEFT => b.x = boxinfo[StripBox].dx
               /\ p = SBAR_CENTER => b.x = CDiv((strip.x + strip.w) - b.w, 2)
               /\ p = SBAR_RIGHT =>
                    b.x = (strip.x + strip.w) - b.w - boxinfo[StripBox].dw - 2
               /\ b.w = MeasureLabelW(b.label) + (BoxDw(b.box) + 1) * 2
    /\ DOMAIN heap = {tf[p] : p \in Positions} \ {0}

\* the three slots placed in a strip that a layout pass has moved
C24_Witness ==
  /\ sbAlive /\ hasParent /\ strip = Rect(2, 12, 56, 14)
  /\ \A p \in Positions : tf[p] # 0
  /\ heap[tf[SBAR_LEFT]].x = 1
  /\ heap[tf[SBAR_CENTER]].x = 20
  /\ heap[tf[SBAR_RIGHT]].x = 37

\* the rectangle of a widget
RectOf(o) == Rect(o.x, o.y, o.w, o.h)

\* resize_from_parent() run on the strip st, the siblings sibs and the boxes
\* hp would change no rectangle
AtFixedPoint(st, sibs, hp, slots, boxes, pb, sz) ==
  LET st2 == ResizedStrip(st, pb, sz)
      hp2 == UpdatedHeap(hp, slots, st2, boxes)
  IN  /\ st2 = st
      /\ \A i \in DOMAIN sibs : RectOf(ShrunkSibling(sibs[i], st2.y)) = RectOf(sibs[i])
      /\ \A id \in DOMAIN hp : RectOf(hp2[id]) = RectOf(hp[id])

\* a step that runs resize_from_parent() on a strip with a parent
Resizes ==
  /\ hasParent
  /\ \/ Layout
     \/ \E sz \in LayoutEnv.sizes, r \in LayoutEnv.strips,
           i \in 1..NSib, s \in LayoutEnv.sibs : ParentLayout(sz, r, i, s)

\* C26: resize_from_parent() run again right after itself changes no
\* rectangle: not the strip's, not a sibling's, not a label slot's.
C26_ResizeIdempotent ==
  [][Resizes => AtFixedPoint(strip', sib', heap', tf', bch', pbox', psize')]_vars

\* The constructor's resize_from_parent() leaves such a state too, and a
\* layout() in it changes nothing.
ConstructedAtFixedPoint ==
  [][Layout /\ AtFixedPoint(strip, sib, heap, tf, bch, pbox, psize) =>
       strip' = strip /\ sib' = sib /\ heap' = heap]_vars

\* after a pass: slots in place, a sibling below the strip shortened to
\* nothing, one across its top edge shortened to end there
C26_Witness ==
  /\ sbAlive /\ hasParent /\ psize = <<60, 30>> /\ strip.h = 14
  /\ tf[SBAR_CENTER] # 0 /\ tf[SBAR_RIGHT] # 0
  /\ \E i \in 1..NSib : sib[i].h = 0 /\ sib[i].y > strip.y
  /\ \E i \in 1..NSib : sib[i].h > 0 /\ Rb(sib[i]) = strip.y
  /\ AtFixedPoint(strip, sib, heap, tf, bch, pbox, psize)

----------------------------------------------------------------------------
(* The sizes of the label slots, checked under SpecSize. *)

\* a set() with a text on the position p, and a resize_from_parent()
SetsText(p) == \E t \in SizeEnv.texts : ~IsEmptyText(t) /\ Set(t, p)
ParentPass ==
  \E sz \in SizeEnv.sizes, r \in SizeEnv.strips, i \in 1..NSib, s \in SizeEnv.sibs :
    ParentLayout(sz, r, i, s)

\* the box hp[id] has the width pad around its label and the height st.h - cut
Sized(hp, id, st, pad, cut) ==
  /\ hp[id].w = MeasureLabelW(hp[id].label) + pad
  /\ hp[id].h = st.h - cut

\* the slot's size as claimed: the inset of the slot's box on one side, the
\* inset of the strip's box on the vertical axis
SizedAsClaimed(hp, id, st) ==
  Sized(hp, id, st, (BoxDx(hp[id].box) * 2 + 1) * 2, 2 * BoxDh(StripBox))

\* the slot's size as the code gives it: the dw of the slot's box, and the
\* dh of the strip's box with the border width
SizedAsCoded(hp, id, st) ==
  Sized(hp, id, st, (BoxDw(hp[id].box) + 1) * 2, 2 * (BoxDh(StripBox) + BORDER_WIDTH))

\* C25: update_box gives an allocated slot the width of its text plus
\* (border_inset*2+1)*2, border_inset being the inset of the slot's own box,
\* and the height of the strip less twice the strip's own vertical inset;
\* this is so after every set() with a text and every resize_from_parent().
C25_SlotSizeAsClaimed ==
  [][/\ \A p \in Positions : SetsText(p) => SizedAsClaimed(heap', tf'[p], strip')
     /\ Layout \/ ParentPass =>
          \A p \in Positions : tf'[p] # 0 => SizedAsClaimed(heap', tf'[p], strip')]_vars

\* C25 as the code has it: the width is that of the text plus (dw+1)*2, dw
\* being the whole horizontal inset of the slot's own box, and the height is
\* the strip's less twice (the dh of the strip's box + the border width),
\* after every set() with a text and every resize_from_parent() of a strip
\* that has a parent.
C25_SlotSizeAsCoded ==
  [][/\ \A p \in Positions : SetsText(p) => SizedAsCoded(heap', tf'[p], strip')
     /\ (Layout /\ hasParent) \/ ParentPass =>
          \A p \in Positions : tf'[p] # 0 => SizedAsCoded(heap', tf'[p], strip')]_vars

\* a slot with the one-pixel border in a strip of height 14
C25_Witness ==
  /\ sbAlive /\ hasParent /\ strip.h = 14 /\ tf[SBAR_LEFT] # 0
  /\ heap[tf[SBAR_LEFT]].box = "line" /\ heap[tf[SBAR_LEFT]].label = "abc"
  /\ heap[tf[SBAR_LEFT]].w = 19 /\ heap[tf[SBAR_LEFT]].h = 6
  /\ tf[SBAR_RIGHT] # 0 /\ heap[tf[SBAR_RIGHT]].box = "thin_down"
  /\ heap[tf[SBAR_RIGHT]].w = 21

----------------------------------------------------------------------------
(* Properties of the label slots, checked under Spec. *)

LiveSlots == {tf[p] : p \in Positions} \ {0}

\* C3: each position holds exactly one text box, labelled with the text of
\* the last set() on it, if that text was not empty, and no box if it was
\* null or empty or there was no set(); the other positions play no part;
\* no box is live but those of the slots, and none once the strip is
\* destroyed.
C3_SlotsFollowLastSet ==
  /\ sbAlive =>
       /\ \A p \in Positions :
            IF lastSet[p].empty THEN tf[p] = 0
            ELSE /\ tf[p] \in DOMAIN heap
                 /\ heap[tf[p]].label = lastSet[p].s
                 /\ \A q \in Positions \ {p} : tf[q] # tf[p]
       /\ DOMAIN heap = LiveSlots
       /\ Len(children) = Cardinality(LiveSlots)
       /\ {children[i] : i \in 1..Len(children)} = LiveSlots
  /\ ~sbAlive => DOMAIN heap = {} /\ children = <<>>

C3_Witness ==
  /\ sbAlive
  /\ lastSet[SBAR_LEFT] = [empty |-> FALSE, s |-> "abc"]
  /\ lastSet[SBAR_CENTER].empty /\ tf[SBAR_CENTER] = 0
  /\ lastSet[SBAR_RIGHT] = [empty |-> FALSE, s |-> "a"]
  /\ children = <<tf[SBAR_RIGHT], tf[SBAR_LEFT]>>
  /\ rt.stage = 2 /\ rt.pos = SBAR_CENTER

\* C4: set(text, p) on an empty slot followed by set("", p) or set(0, p)
\* leaves no box at p, and the child list, the three slot pointers and the
\* live boxes as they were before the first call; one more empty set on p
\* changes nothing.
C4_SetClearRoundTrip ==
  rt.stage \in {2, 3} =>
    /\ tf[rt.pos] = 0
    /\ tf = rt.preTf
    /\ children = rt.preChildren
    /\ heap = rt.preHeap
    /\ DOMAIN heap = LiveSlots

C4_Witness ==
  /\ rt.stage = 3 /\ rt.pos = SBAR_RIGHT
  /\ Len(children) = 2 /\ tf[SBAR_LEFT] # 0 /\ tf[SBAR_CENTER] # 0

----------------------------------------------------------------------------
(* Properties of the box variants, checked under SpecVariants. *)

CallDone == out.exit # "none"

\* C11: a HighlightBox drawn with HIGHLIGHT, SELECTED, VALUE or PUSHED in the
\* flags emits exactly what its active box emits for the same rectangle and
\* flags, and with none of the four exactly what FlatBox emits.
C11_HighlightDelegates ==
  (CallDone /\ call.box \in HighlightBoxes) =>
    IF \E f \in {HIGHLIGHT, SELECTED, VALUE, PUSHED} : f \in call.flags
      THEN out.ops = FrameBoxDraw(HighlightBoxDown[call.box], call.R,
                                  call.flags, call.inactiveBoxes).ops
      ELSE out.ops = FlatBoxDraw(call.R, call.flags).ops

C11_Witness ==
  /\ CallDone /\ call.box = "highlight_up"
  /\ call.flags = {PUSHED} /\ call.R = Rect(3, 2, 5, 4)
  /\ Len(out.ops) = 10 /\ out.ops[1] = SetColor(Gray(Ord("H")))
  /\ out.ops[10] = FillRect(Rect(4, 3, 3, 2))

\* C12: every box variant, drawn on an empty rectangle, emits no primitive,
\* whatever the flags and the style.
C12_EmptyDrawsNothing ==
  (CallDone /\ Empty(call.R)) => out.ops = <<>>

----------------------------------------------------------------------------
(* Properties of the formatted set(), checked under SpecFormat. *)

\* C14: the formatted set() writes no byte outside its 512-byte buffer, and
\* for a result of at most 511 characters it leaves the strip as
\* set(result, position) does ("%d items" with 5 gives "5 items", an empty
\* result clears the slot).
C14_FormattedSetInBuffer ==
  [][\A p \in Positions, c \in FormatCalls :
       SetFormatted(p, c.fmt, c.args) =>
         /\ buffer'.over = 0
         /\ Len(Render(c.fmt, c.args)) <= BufSize - 1 =>
              SetBody(Txt(Render(c.fmt, c.args)), p)]_vars

\* What does hold: a result that fits the buffer stays in it, and the strip
\* ends as after the plain set() of the result.
FormattedSetDelegates ==
  [][\A p \in Positions, c \in FormatCalls :
       (SetFormatted(p, c.fmt, c.args) /\ Len(Render(c.fmt, c.args)) <= BufSize - 1)
         => /\ buffer' = [s |-> Render(c.fmt, c.args), over |-> 0]
            /\ SetBody(Txt(Render(c.fmt, c.args)), p)]_vars

FiveItemsShown ==
  /\ buffer = [s |-> "5 items", over |-> 0]
  /\ tf[SBAR_CENTER] # 0 /\ heap[tf[SBAR_CENTER]].label = "5 items"

----------------------------------------------------------------------------
(* The sibling rule, checked under SpecLayout. *)

Max(a, b) == IF a >= b THEN a ELSE b

\* what the sibling rule may do to the child `before` of the parent, the
\* strip's top now being at stripY
SiblingRuleHolds(before, after, stripY) ==
  LET overlap == Rb(before) - stripY
  IN  /\ after.x = before.x /\ after.y = before.y /\ after.w = before.w
      /\ after.kids = before.kids
      /\ IF overlap > 0 THEN after.h = Max(before.h - overlap, 0)
                        ELSE after = before

\* C20: resize_from_parent() takes the overlap of each other child of the
\* parent with the strip's new top from that child's height, not below 0,
\* and leaves a child that does not overlap as it is; it never moves or
\* widens a child, and never resizes the children of those children.
C20_SiblingsOnlyShortened ==
  [][/\ \A sz \in LayoutEnv.sizes, r \in LayoutEnv.strips,
          i \in 1..NSib, s \in LayoutEnv.sibs :
          ParentLayout(sz, r, i, s) =>
            /\ strip'.y = sz[2] - BoxDh(pbox) - r.h
            /\ \A j \in 1..NSib :
                 SiblingRuleHolds([sib EXCEPT ![i] = s][j], sib'[j], strip'.y)
     /\ (Layout /\ hasParent) =>
          \A j \in 1..NSib : SiblingRuleHolds(sib[j], sib'[j], strip'.y)]_vars

C20_Witness ==
  /\ sbAlive /\ hasParent
  /\ \E j, k \in 1..NSib :
       /\ sib[j].isGroup /\ ~sib[j].sizes
       /\ sib[j].y = 4 /\ sib[j].h = 6 /\ Rb(sib[j]) = strip.y
       /\ sib[j].kids = <<Rect(0, 0, 20, 10)>>
       /\ sib[k].y = 25 /\ sib[k].h = 0

----------------------------------------------------------------------------
(* Properties of CycleButton, checked under SpecCycle. *)

HandleDone == out.exit = "handled"

\* the events the class documentation calls a step forward and a step back
ForwardStep(b, ev) ==
  \/ ev.e = "RELEASE" /\ b.held = "this" /\ ev.button = 1 /\ ev.mods = {}
  \/ ev.e = "KEY" /\ ev.key \in {"DownKey", "ReturnKey", "SpaceKey"}
  \/ ev.e = "SHORTCUT" /\ ev.shortcut
BackwardStep(b, ev) ==
  \/ ev.e = "RELEASE" /\ b.held = "this" /\ (ev.button \in {2, 3} \/ ev.mods # {})
  \/ ev.e = "KEY" /\ ev.key = "UpKey"

\* the item k places after (sign 1) or before (sign -1) the current one
Around(b, k, sign) == (b.value + sign * k + Len(b.items)) % Len(b.items)
\* how far, in that direction, the other items that take events are
Reach(b, sign) ==
  {k \in 1..(Len(b.items) - 1) : b.items[Around(b, k, sign) + 1]}
Nearest(b, sign) ==
  Around(b, CHOOSE k \in Reach(b, sign) : \A m \in Reach(b, sign) : k <= m, sign)

\* C15: with a current item, a step forward selects the nearest item after
\* it, in cyclic order, that takes events, and a step back the nearest
\* before it; if no other item takes events the value stays and handle()
\* returns 0.
C15_CycleSkipsToNearest ==
  LET b == call.button
      ev == call.event
      sign == IF ForwardStep(b, ev) THEN 1 ELSE -1
  IN  (/\ HandleDone
       /\ b.value >= 0 /\ b.value < Len(b.items)
       /\ ForwardStep(b, ev) \/ BackwardStep(b, ev))
      => IF Reach(b, sign) # {}
           THEN /\ out.button.value = Nearest(b, sign)
                /\ out.executed = Nearest(b, sign)
                /\ out.ret = 1
           ELSE /\ out.button.value = b.value
                /\ out.executed = -1
                /\ out.ret = 0

C15_Witness ==
  /\ HandleDone
  /\ call.button = Button(<<TRUE, TRUE, FALSE, FALSE>>, 0, "this")
  /\ call.event = Event("RELEASE", 1, {"SHIFT"}, "", TRUE, FALSE, -1)
  /\ out.button.value = 1 /\ out.ret = 1 /\ out.button.held = "none"

----------------------------------------------------------------------------
(* The press protocol of CycleButton, checked under SpecPress. *)

\* this button has handled the event call.event
Pressed == out.exit = "handled" /\ call.who = "this"

\* C27: over every sequence of PUSH, DRAG and RELEASE events, a RELEASE
\* changes the selected item only if the button is held down, and then its
\* last PUSH or DRAG was inside it; a PUSH or DRAG outside leaves it not
\* held; a RELEASE when not held returns 0 and changes nothing; after a
\* RELEASE the button is not held.  (held_down is one pointer: two buttons
\* are never held at once.)
C27_PressProtocol ==
  /\ Pressed /\ call.event.e = "RELEASE" =>
       /\ out.button.value # call.button.value =>
            call.button.held = "this" /\ call.last = "inside"
       /\ call.button.held # "this" =>
            /\ out.ret = 0 /\ out.button = call.button
            /\ out.executed = -1 /\ ~out.redrawn
       /\ out.button.held # "this"
  /\ Pressed /\ call.event.e \in {"PUSH", "DRAG"} /\ ~call.event.inside =>
       /\ out.button.held # "this"
       /\ Len(call.button.items) > 0 => out.button.held = "none"
  /\ PressedButton.held = "this" => LastPress = "inside"

\* a RELEASE that changed the item, after a PUSH inside
C27_Witness ==
  /\ Pressed /\ call.event.e = "RELEASE" /\ call.button.held = "this"
  /\ call.last = "inside" /\ call.button.value = 0 /\ out.button.value = 2
  /\ out.ret = 1 /\ out.button.held = "none"

\* a RELEASE after the mouse was dragged out: nothing changes
ReleasedOutside ==
  /\ Pressed /\ call.event.e = "RELEASE" /\ call.last = "outside"
  /\ out.ret = 0 /\ out.button = call.button

----------------------------------------------------------------------------
(* The cycling loops of CycleButton, checked under SpecLoop. *)

LoopDone == out.exit # "none"

\* C28: the loops after UP: and DOWN: end, for every number of children >= 1
\* and every value() in -1..children-1, after at most children-1 calls of
\* try_item, whether or not an item takes events; the current item is not
\* tried again.
C28_LoopsEnd ==
  LoopDone =>
    LET n == Len(call.button.items)
    IN  /\ out.exit \in {"break", "return"}
        /\ Len(out.tried) <= n - 1
        /\ \A k \in 1..Len(out.tried) :
             /\ out.tried[k] \in 0..(n - 1)
             /\ out.tried[k] # call.button.value
             /\ \A m \in 1..(k - 1) : out.tried[m] # out.tried[k]
        /\ out.exit = "break" => Len(out.tried) = n - 1

\* no item takes events: every other item is tried, and the loop ends
C28_Witness ==
  /\ LoopDone /\ call.button.items = <<FALSE, FALSE, FALSE, FALSE>>
  /\ call.button.value = 2 /\ call.dir = "UP"
  /\ out.exit = "break" /\ out.tried = <<1, 0, 3>>

\* The turns are those of handle(): the item it executes is the last one
\* tried, if the loop returned from try_item.
TurnsAreHandled ==
  LoopDone =>
    LET res == Cycle(call.button, call.dir, FALSE)
    IN  /\ res.ret = (IF out.exit = "return" THEN 1 ELSE 0)
        /\ res.executed = (IF out.exit = "return"
                             THEN out.tried[Len(out.tried)] ELSE -1)

----------------------------------------------------------------------------
(* The UTF-8 codec. *)

EncodeDone == out.exit = "decoded"
Replacement == <<239, 191, 189>>

\* C16: decoding the bytes utf8encode wrote for a code point of 0..0x10ffff
\* returns that code point, with len the number of bytes written; only a
\* code point above 0x10ffff is written as the bytes of 0xFFFD.
C16_EncodeDecodeIdentity ==
  EncodeDone =>
    /\ call.ucs <= UnicodeMax => out.ucs = call.ucs /\ out.len = out.n
    /\ out.bytes = Replacement => call.ucs > UnicodeMax \/ call.ucs = 65533

\* The same below 0x10ffff, where the code does what its documentation says.
EncodeDecodeBelowMax ==
  EncodeDone =>
    /\ call.ucs < UnicodeMax => out.ucs = call.ucs /\ out.len = out.n
    /\ out.bytes = Replacement => call.ucs >= UnicodeMax \/ call.ucs = 65533

\* utf8bytes(ucs) is the number of bytes utf8encode(ucs) writes.
BytesPredicted == EncodeDone => out.predicted = out.n

----------------------------------------------------------------------------
(* The conversions between UTF-8, wide characters and ISO-8859-1. *)

Converters == {"utf8towc", "utf8toa", "utf8fromwc", "utf8froma"}
ConvertDone == out.exit = "returned" /\ call.fn \in Converters

\* dst holds data up to a zero, with no element skipped before it
Terminated(dst) ==
  \E k \in DOMAIN dst :
    dst[k] = 0 /\ \A i \in 0..(k - 1) : i \in DOMAIN dst /\ dst[i] # 0

\* C17: with dstlen > 0 each of utf8towc, utf8toa, utf8fromwc and utf8froma
\* writes only dst[0 .. dstlen-1], at most dstlen-1 data elements, and leaves
\* dst zero-terminated; with dstlen = 0 it writes nothing.
C17_ConvertersStayInDst ==
  ConvertDone =>
    /\ ~out.wild
    /\ call.dstlen = 0 => out.dst = NoDst
    /\ call.dstlen > 0 =>
         /\ DOMAIN out.dst \subseteq 0..(call.dstlen - 1)
         /\ Terminated(out.dst)
         /\ Cardinality({i \in DOMAIN out.dst : out.dst[i] # 0}) <= call.dstlen - 1

\* a conversion of more than dst holds, which filled dst to its last element
C17_Witness ==
  /\ ConvertDone /\ call.fn = "utf8fromwc" /\ call.dstlen > 1
  /\ out.ret >= call.dstlen
  /\ DOMAIN out.dst = 0..(call.dstlen - 1)
  /\ out.dst[call.dstlen - 1] = 0

\* the call c made again with a dst of n elements
Again(c, n) ==
  CASE c.fn = "utf8towc" -> utf8towc(c.src, n, c.win32)
    [] c.fn = "utf8toa" -> utf8toa(c.src, n)
    [] c.fn = "utf8fromwc" -> utf8fromwc(c.src, n, c.win32)
    [] c.fn = "utf8froma" -> utf8froma(c.src, n)

\* a dst long enough for every source here: 4 elements for each unit, and
\* the terminator
Roomy == 4 * (MaxTokens + MaxWords + MaxBytes) + 1

ReturnIsFullLength ==
  LET full == Again(call, Roomy)
  IN  /\ full.ret < Roomy
      /\ out.ret = full.ret
      /\ \A n \in Dstlens : Again(call, n).ret = out.ret
      /\ out.ret >= call.dstlen <=> out.dst # full.dst

\* C19: what utf8towc, utf8toa, utf8fromwc and utf8froma return is the
\* number of elements a dst long enough would get, the same for every
\* dstlen, and it is >= dstlen exactly when the output was truncated.
C19_ReturnIsFullLength == ConvertDone => ReturnIsFullLength

\* The same holds of every one of them but utf8fromwc built for Windows.
ReturnIsFullLengthElsewhere ==
  ConvertDone /\ ~(call.fn = "utf8fromwc" /\ call.win32) => ReturnIsFullLength

----------------------------------------------------------------------------
(* utf8tomb and utf8frommb in a UTF-8 locale. *)

LocaleDone == out.exit = "returned" /\ call.fn \in {"utf8tomb", "utf8frommb"}

InDst ==
  /\ ~out.wild
  /\ DOMAIN out.dst \subseteq 0..(call.dstlen - 1)
  /\ call.dstlen > 0 => \E k \in DOMAIN out.dst : out.dst[k] = 0
  /\ call.dstlen = 0 => out.dst = NoDst

\* C18: in a UTF-8 locale utf8tomb and utf8frommb write no index >= dstlen,
\* leave dst null-terminated within its dstlen bytes, write nothing when
\* dstlen is 0, and return srclen, whatever srclen and dstlen are.
C18_LocaleIdentityInDst == LocaleDone => InDst /\ out.ret = Len(call.src)

\* They do return srclen, and stay in dst when srclen < dstlen.
LocaleReturnsSrclen == LocaleDone => out.ret = Len(call.src)
LocaleInDstWhenShorter == LocaleDone /\ Len(call.src) < call.dstlen => InDst

----------------------------------------------------------------------------
(* key_name, checked under SpecKey. *)

KeyNamed == out.exit = "named"

\* C30: key_name writes no byte beyond the 20 bytes of buf, for every
\* combination of the META, ALT, SHIFT and CTRL prefixes and every key, and
\* key_name(0) returns the empty string.
C30_KeyNameInBuffer ==
  KeyNamed =>
    /\ out.written <= KeyBufSize
    /\ call.shortcut.key.class = "zero" /\ KeyPrefix(call.shortcut) = "" => out.s = ""

\* What does hold: the prefixes come in the order Meta+, Alt+, Shift+,
\* Ctrl+, the name follows them, key_name(0) is "", and a result of at most
\* 19 characters is written inside buf.
KeyNameWhenShort ==
  KeyNamed =>
    LET res == KeyName(call.x11, call.shortcut)
    IN  /\ res.written > 0 => res.written = Len(res.s) + 1
                                \/ (call.shortcut.key.ch = "" /\ res.written = Len(res.s) + 2)
        /\ Len(res.s) + 2 <= KeyBufSize => out = res /\ out.written <= KeyBufSize
        /\ SubSeq(res.s, 1, Len(KeyPrefix(call.shortcut))) = KeyPrefix(call.shortcut)
             \/ ~res.inbuf
        /\ call.shortcut.key.class = "zero" /\ KeyPrefix(call.shortcut) = "" => out.s = ""

\* all four prefixes: the terminator of "Ctrl+" is already the 21st byte
FourPrefixes ==
  /\ KeyNamed /\ KeyPrefix(call.shortcut) = "Meta+Alt+Shift+Ctrl+"
  /\ call.shortcut.key.ch = "a" /\ out.written = 22

\* two prefixes overflow with a name of the table
TwoPrefixes ==
  /\ KeyNamed /\ ~call.x11 /\ out.s = "Shift+Ctrl+ScrollLock" /\ out.written = 22

====
